---------------------------- MODULE Spec2Model ----------------------------
(***************************************************************************)
(* FigScript: a styling micro-language translated to utility classes.      *)
(*                                                                         *)
(* Strings are strings: split, trim, startsWith, substring and the regular  *)
(* expressions of the source are computed character by character with Len,  *)
(* SubSeq and \o.  An emoji of the source is written as a name between      *)
(* colons (":scissors:").  An absent (undefined) input is the empty string: *)
(* every entry point of the source tests !s?.trim(), which does not tell    *)
(* the two apart.                                                           *)
(***************************************************************************)
EXTENDS Integers, Sequences, FiniteSets, TLC

VARIABLES
    pc,             \* position of the run that is being modelled
    tokInput,       \* tokenizer run: the raw string
    splits,         \* tokenizer run: positions of the commas used as split points
    tokens,         \* tokenizer run: tokenizeFigScriptString(tokInput)
    retokens,       \* tokenizer run: tokens of the joined string forms
    parser,         \* parser run: the domain parser that is running
    raw,            \* parser run: its raw property string
    st,             \* parser run: its local variables and the result it builds
    rest,           \* parser run: the tokens the forEach loop has not reached yet
    result,         \* parser run: the returned parse result
    props,          \* component: the five property strings
    collected,      \* component: collectedClasses, collectedErrors, collectedWarnings
    fixedPosition,  \* component: the fixedPosition local of the useMemo callback
    invoked,        \* component: the domain parsers invoked so far, in order
    memo            \* component: the object the useMemo callback returns

tokVars == << tokInput, splits, tokens, retokens >>
runVars == << parser, raw, st, rest, result >>
aggVars == << props, collected, fixedPosition, invoked, memo >>
vars == << pc, tokVars, runVars, aggVars >>

\* values of the variables a run does not use
TokIdle == tokInput = "" /\ splits = {} /\ tokens = << >> /\ retokens = << >>
RunIdle == parser = "none" /\ raw = "" /\ st = << >> /\ rest = << >> /\ result = << >>
AggIdle ==
    /\ props = << >> /\ collected = << >> /\ fixedPosition = FALSE
    /\ invoked = << >> /\ memo = << >>

-----------------------------------------------------------------------------
(* Bounds of the model *)

\* longest raw string the tokenizer runs enumerate
MaxLen == 5

\* most tokens in a Position string of the parser runs
MaxPositionTokens == 3

\* most vocabulary items in a Layout string of the parser runs
MaxLayoutTokens == 3

\* most vocabulary items in a Fill or Stroke string of the color runs
MaxColorTokens == 3

\* the longest token sequence of a string of the runs of all five parsers
MaxProbeTokens == 3

\* most vocabulary items in an Appearance string of the corner-radius runs
MaxAppearanceTokens == 3

\* most vocabulary items in a string of the opacity runs
MaxOpacityTokens == 2

-----------------------------------------------------------------------------
(* String helpers: the String methods the source uses *)

SP == " "

\* the character of s at position i (1-based)
Ch(s, i) == SubSeq(s, i, i)

Min(S) == CHOOSE x \in S : \A y \in S : x <= y

\* s.substring(n)
Substring(s, n) == SubSeq(s, n + 1, Len(s))

\* s.substring(a, b): both indices clamped to 0..length, swapped when a > b
Substring2(s, a, b) ==
    LET Clamp(i) == IF i < 0 THEN 0 ELSE IF i > Len(s) THEN Len(s) ELSE i
        lo == IF Clamp(a) < Clamp(b) THEN Clamp(a) ELSE Clamp(b)
        hi == IF Clamp(a) < Clamp(b) THEN Clamp(b) ELSE Clamp(a)
    IN  SubSeq(s, lo + 1, hi)

\* s.startsWith(p)
StartsWith(s, p) == Len(p) <= Len(s) /\ SubSeq(s, 1, Len(p)) = p

\* s.endsWith(p)
EndsWith(s, p) == Len(p) <= Len(s) /\ SubSeq(s, Len(s) - Len(p) + 1, Len(s)) = p

\* s.includes(p)
Includes(s, p) == \E i \in 1..(Len(s) - Len(p) + 1) : SubSeq(s, i, i + Len(p) - 1) = p

\* s.trim(): the model's only whitespace character is the space
TrimStr(s) ==
    LET nonSp == {i \in 1..Len(s) : Ch(s, i) # SP}
    IN  IF nonSp = {} THEN ""
        ELSE SubSeq(s, Min(nonSp), CHOOSE j \in nonSp : \A k \in nonSp : k <= j)

\* the pieces of s between the positions pts, from position from on (String.split)
RECURSIVE SplitAt(_, _, _)
SplitAt(s, pts, from) ==
    LET nxt == {i \in pts : i >= from}
    IN  IF nxt = {} THEN << SubSeq(s, from, Len(s)) >>
        ELSE << SubSeq(s, from, Min(nxt) - 1) >> \o SplitAt(s, pts, Min(nxt) + 1)

\* s.split(ch) for a one-character separator
SplitChar(s, ch) == SplitAt(s, {i \in 1..Len(s) : Ch(s, i) = ch}, 1)

\* parts.join(sep)
RECURSIVE Join(_, _)
Join(parts, sep) ==
    IF parts = << >> THEN ""
    ELSE IF Len(parts) = 1 THEN parts[1]
    ELSE parts[1] \o sep \o Join(Tail(parts), sep)

-----------------------------------------------------------------------------
(* Tokenizer: utils.ts *)

Bare(v) == [kind |-> "bare", key |-> "", value |-> v]
KeyValue(k, v) == [kind |-> "kv", key |-> k, value |-> v]

\* isKeyValuePair(token)
isKeyValuePair(t) == t.kind = "kv"

\* a lookahead written with the wrong character class, (?!\S*\)): mutant of
\* LookaheadCloses
LookaheadWrongClass(s, i) ==
    \E j \in i..Len(s) :
        /\ Ch(s, j) = ")"
        /\ \A k \in i..(j - 1) : Ch(s, k) # SP

\* the negative lookahead (?![^()]*\)) at position i: some ")" follows with
\* neither "(" nor ")" before it
LookaheadCloses(s, i) ==
    \E j \in i..Len(s) :
        /\ Ch(s, j) = ")"
        /\ \A k \in i..(j - 1) : Ch(s, k) \notin {"(", ")"}

\* the commas the regular expression /,(?![^()]*\))/g matches
SplitPoints(s) == {i \in 1..Len(s) : Ch(s, i) = "," /\ ~LookaheadCloses(s, i + 1)}

\* inputString.split(/,(?![^()]*\))/g)
SplitSegments(s) == SplitAt(s, SplitPoints(s), 1)

\* a key/value test written parts.length >= 2: mutant of MakeToken
MakeTokenAtLeastTwo(seg) ==
    LET parts == SplitChar(seg, "=")
    IN  IF Len(parts) >= 2 THEN KeyValue(TrimStr(parts[1]), TrimStr(parts[2]))
        ELSE Bare(seg)

\* the mapping of one trimmed segment to a token
MakeToken(seg) ==
    LET parts == SplitChar(seg, "=")
    IN  IF Len(parts) = 2 THEN KeyValue(TrimStr(parts[1]), TrimStr(parts[2]))
        ELSE Bare(seg)

NonEmpty(s) == Len(s) > 0

tokenizeFigScriptString(s) ==
    IF TrimStr(s) = "" THEN << >>
    ELSE LET segs == SplitSegments(s)
             trimmed == [i \in DOMAIN segs |-> TrimStr(segs[i])]
             kept == SelectSeq(trimmed, NonEmpty)
         IN  [i \in DOMAIN kept |-> MakeToken(kept[i])]

-----------------------------------------------------------------------------
(* Shared helpers of the domain parsers *)

UpperLetters == "ABCDEFGHIJKLMNOPQRSTUVWXYZ"
LowerLetters == "abcdefghijklmnopqrstuvwxyz"
Digits == "0123456789"

LetterIndex(c) == {i \in 1..Len(UpperLetters) : Ch(UpperLetters, i) = c}

\* s.toLowerCase(), on the ASCII letters
RECURSIVE toLowerCase(_)
toLowerCase(s) ==
    IF s = "" THEN ""
    ELSE LET c == Ch(s, 1)
             lc == IF LetterIndex(c) = {} THEN c
                   ELSE Ch(LowerLetters, CHOOSE i \in LetterIndex(c) : TRUE)
         IN  lc \o toLowerCase(Substring(s, 1))

DigitIndex(c) == {i \in 1..Len(Digits) : Ch(Digits, i) = c}

\* /^\d+$/.test(s)
AllDigits(s) == Len(s) > 0 /\ \A i \in 1..Len(s) : DigitIndex(Ch(s, i)) # {}

\* /^\d+(?:\.\d+)?$/.test(s)
IsDecimal(s) ==
    \/ AllDigits(s)
    \/ \E p \in 2..(Len(s) - 1) :
          /\ Ch(s, p) = "."
          /\ AllDigits(SubSeq(s, 1, p - 1))
          /\ AllDigits(SubSeq(s, p + 1, Len(s)))

\* Number(s) for a string of digits
RECURSIVE ParseNat(_)
ParseNat(s) ==
    IF s = "" THEN 0
    ELSE ParseNat(SubSeq(s, 1, Len(s) - 1)) * 10
            + (CHOOSE i \in DigitIndex(Ch(s, Len(s))) : TRUE) - 1

\* String(n) for a natural number
RECURSIVE FormatNat(_)
FormatNat(n) ==
    IF n < 10 THEN Ch(Digits, n + 1)
    ELSE FormatNat(n \div 10) \o Ch(Digits, (n % 10) + 1)

RECURSIVE StripTrailingZeros(_)
StripTrailingZeros(s) ==
    IF s # "" /\ Ch(s, Len(s)) = "0" THEN StripTrailingZeros(SubSeq(s, 1, Len(s) - 1))
    ELSE s

\* parseFloat(s) for a decimal literal: the integer part and the fraction
\* digits without trailing zeros (exact for the short literals of the model)
parseFloat(s) ==
    LET dots == {p \in 1..Len(s) : Ch(s, p) = "."}
    IN  IF dots = {} THEN [int |-> ParseNat(s), frac |-> ""]
        ELSE LET p == Min(dots)
             IN  [int |-> ParseNat(SubSeq(s, 1, p - 1)),
                  frac |-> StripTrailingZeros(SubSeq(s, p + 1, Len(s)))]

\* `${n}` for a number
FormatNumber(n) ==
    FormatNat(n.int) \o (IF n.frac = "" THEN "" ELSE "." \o n.frac)

\* n >= 0 && n <= 100
InPercentRange(n) == n.int < 100 \/ (n.int = 100 /\ n.frac = "")

\* parseNumericValue: matched = FALSE is the null result, unit "null" is no unit
parseNumericValue(valueString) ==
    LET none == [matched |-> FALSE, value |-> [int |-> 0, frac |-> ""], unit |-> "null"]
        WithUnit(u) ==
            /\ EndsWith(valueString, u)
            /\ IsDecimal(SubSeq(valueString, 1, Len(valueString) - Len(u)))
        Lit(u) == parseFloat(SubSeq(valueString, 1, Len(valueString) - Len(u)))
    IN  IF valueString = "" THEN none
        ELSE IF WithUnit("px") THEN [matched |-> TRUE, value |-> Lit("px"), unit |-> "px"]
        ELSE IF WithUnit("deg") THEN [matched |-> TRUE, value |-> Lit("deg"), unit |-> "deg"]
        ELSE IF WithUnit("%") THEN [matched |-> TRUE, value |-> Lit("%"), unit |-> "%"]
        ELSE IF IsDecimal(valueString)
             THEN [matched |-> TRUE, value |-> parseFloat(valueString), unit |-> "null"]
        ELSE none

\* parseNumericValue(s)?.unit === 'px'
IsPx(s) == parseNumericValue(s).matched /\ parseNumericValue(s).unit = "px"

\* createParseResult()
createParseResult == [classes |-> << >>, errors |-> << >>, warnings |-> << >>]

\* array.includes(x)
Contains(seq, x) == \E i \in DOMAIN seq : seq[i] = x

\* Array.from(new Set(array)): the first occurrence of each element, in order
RECURSIVE Unique(_)
Unique(seq) ==
    IF seq = << >> THEN << >>
    ELSE LET init == Unique(SubSeq(seq, 1, Len(seq) - 1))
         IN  IF Contains(init, seq[Len(seq)]) THEN init ELSE Append(init, seq[Len(seq)])

\* value.split(',').map(v => v.trim())
SplitTrim(value) ==
    LET parts == SplitChar(value, ",")
    IN  [i \in DOMAIN parts |-> TrimStr(parts[i])]

\* array.forEach over an accumulated state
RECURSIVE FoldLeft(_, _, _)
FoldLeft(Op(_, _), acc, seq) ==
    IF seq = << >> THEN acc ELSE FoldLeft(Op, Op(acc, Head(seq)), Tail(seq))

\* the key (lower-cased), the value and the shorthand flag a token loop reads;
\* a bare token has key null, written "" (no branch compares a key with "")
TokenKey(token) == IF isKeyValuePair(token) THEN toLowerCase(token.key) ELSE ""
IsShorthand(token) == ~isKeyValuePair(token)

-----------------------------------------------------------------------------
(* Position parser: parsePosition.ts.  Emoji: :check: :cross: :left: :right:  *)
(* :up: :down:.  An unset field of alignmentValues, positionValues or         *)
(* constraintValues is << >>, a set one is << value >>; zIndexClass null is   *)
(* "" (it is only ever assigned non-empty strings).                            *)

PositionStart ==
    [classes |-> << >>, errors |-> << >>, warnings |-> << >>,
     isFixed |-> FALSE,
     ignoreAutoLayout |-> "null",
     rotationDefined |-> FALSE,
     alignmentValues |-> [h |-> << >>, v |-> << >>],
     positionValues |-> [x |-> << >>, y |-> << >>],
     constraintValues |-> [h |-> << >>, v |-> << >>],
     transformClasses |-> << >>,
     positionOffsetClasses |-> << >>,
     explicitPositionClasses |-> << >>,
     zIndexClass |-> ""]

\* 1. ignore-auto-layout
processIgnoreAutoLayout(s0, value) ==
    LET s1 == IF s0.ignoreAutoLayout # "null"
              THEN [s0 EXCEPT !.warnings = Append(@,
                        "\"ignore-auto-layout\" defined multiple times. Last definition used: \""
                            \o value \o "\".")]
              ELSE s0
    IN  IF value \in {"TRUE(:check:)", "TRUE", ":check:"}
        THEN [s1 EXCEPT !.ignoreAutoLayout = "true",
                        !.isFixed = TRUE,
                        !.explicitPositionClasses =
                            IF Contains(@, "fixed") THEN @ ELSE Append(@, "fixed")]
        ELSE IF value \in {"FALSE(:cross:)", "FALSE", ":cross:"}
        THEN [s1 EXCEPT !.ignoreAutoLayout = "false", !.isFixed = FALSE]
        ELSE [s1 EXCEPT !.errors = Append(@,
                  "Invalid value for \"ignore-auto-layout\": \"" \o value
                      \o "\". Use TRUE(:check:) or FALSE(:cross:).")]

\* 2. rotation
processRotation(s0, rotVal) ==
    LET angle == parseNumericValue(Substring(rotVal, 2))
        s1 == IF StartsWith(rotVal, "r-")
              THEN IF rotVal = "r-90"
                   THEN [s0 EXCEPT !.transformClasses = Append(@, "rotate-90")]
                   ELSE IF rotVal = "r-180"
                   THEN [s0 EXCEPT !.transformClasses = Append(@, "rotate-180")]
                   ELSE IF rotVal = "r-270"
                   THEN [s0 EXCEPT !.transformClasses = Append(@, "-rotate-90")]
                   ELSE IF angle.matched /\ angle.unit \in {"deg", "null"}
                   THEN [s0 EXCEPT !.transformClasses =
                            Append(@, "rotate-[" \o FormatNumber(angle.value) \o "deg]")]
                   ELSE [s0 EXCEPT !.errors = Append(@,
                            "Invalid rotation angle: \"" \o rotVal
                                \o "\". Use \"r-#deg\" or \"r-#\".")]
              ELSE IF rotVal = "flip-h"
              THEN [s0 EXCEPT !.transformClasses = Append(@, "scale-x-[-1]")]
              ELSE IF rotVal = "flip-v"
              THEN [s0 EXCEPT !.transformClasses = Append(@, "scale-y-[-1]")]
              ELSE [s0 EXCEPT !.errors = Append(@,
                       "Unknown rotation token: \"" \o rotVal \o "\".")]
    IN  [s1 EXCEPT !.rotationDefined = TRUE]

\* 3. alignment
processAlignment(s0, alignVal) ==
    IF alignVal \in {"align-left", ":left:"}
    THEN [s0 EXCEPT !.alignmentValues.h = << "left" >>]
    ELSE IF alignVal \in {"align-right", ":right:"}
    THEN [s0 EXCEPT !.alignmentValues.h = << "right" >>]
    ELSE IF alignVal \in {"align-top", ":up:"}
    THEN [s0 EXCEPT !.alignmentValues.v = << "top" >>]
    ELSE IF alignVal \in {"align-bottom", ":down:"}
    THEN [s0 EXCEPT !.alignmentValues.v = << "bottom" >>]
    ELSE [s0 EXCEPT !.errors = Append(@, "Invalid alignment token: \"" \o alignVal \o "\".")]

\* 4. position (x, y)
processXY(s0, xyVal) ==
    LET num == parseNumericValue(Substring(xyVal, 2))
        px == FormatNumber(num.value) \o "px"
    IN  IF StartsWith(xyVal, "x-")
        THEN IF num.matched /\ num.unit = "px"
             THEN [s0 EXCEPT !.positionValues.x = << px >>]
             ELSE [s0 EXCEPT !.errors = Append(@,
                      "Invalid x position: \"" \o xyVal \o "\". Use \"x-#px\".")]
        ELSE IF StartsWith(xyVal, "y-")
        THEN IF num.matched /\ num.unit = "px"
             THEN [s0 EXCEPT !.positionValues.y = << px >>]
             ELSE [s0 EXCEPT !.errors = Append(@,
                      "Invalid y position: \"" \o xyVal \o "\". Use \"y-#px\".")]
        ELSE [s0 EXCEPT !.errors = Append(@,
                 "Invalid x/y position token: \"" \o xyVal \o "\".")]

\* 5. constraints
processConstraint(s0, conVal) ==
    IF StartsWith(conVal, "h-")
    THEN [s0 EXCEPT !.constraintValues.h = << Substring(conVal, 2) >>]
    ELSE IF StartsWith(conVal, "v-")
    THEN [s0 EXCEPT !.constraintValues.v = << Substring(conVal, 2) >>]
    ELSE [s0 EXCEPT !.errors = Append(@, "Invalid constraint token: \"" \o conVal \o "\".")]

\* 6. z-index
processZIndex(s0, value) ==
    LET zNum == Substring(value, 2)
        again == IF s0.zIndexClass # ""
                 THEN [s0 EXCEPT !.warnings = Append(@,
                          "Z-index defined multiple times. Last used: \"" \o value \o "\".")]
                 ELSE s0
    IN  IF AllDigits(zNum) /\ ParseNat(zNum) % 10 = 0 /\ ParseNat(zNum) <= 50
        THEN [again EXCEPT !.zIndexClass = value]
        ELSE IF AllDigits(zNum)
        THEN [again EXCEPT !.zIndexClass = "z-[" \o zNum \o "]"]
        ELSE [s0 EXCEPT !.errors = Append(@,
                 "Invalid z-index value: \"" \o value
                     \o "\". Use \"z-10\", \"z-20\", etc., or \"z-[custom]\".")]

\* the body of tokens.forEach
PositionToken(s0, token) ==
    LET key == TokenKey(token)
        value == token.value
        isShorthand == IsShorthand(token)
    IN  IF key = "ignore-auto-layout"
            \/ (isShorthand /\ value \in {":check:", "TRUE", ":cross:", "FALSE"})
        THEN processIgnoreAutoLayout(s0, value)
        ELSE IF key = "rotation"
            \/ (isShorthand /\ (StartsWith(value, "r-") \/ value \in {"flip-h", "flip-v"}))
        THEN IF key = "rotation" THEN FoldLeft(processRotation, s0, SplitTrim(value))
             ELSE processRotation(s0, value)
        ELSE IF key = "alignment" \/ (isShorthand /\ StartsWith(value, "align-"))
        THEN IF key = "alignment" THEN FoldLeft(processAlignment, s0, SplitTrim(value))
             ELSE processAlignment(s0, value)
        ELSE IF key = "position"
            \/ (isShorthand /\ (StartsWith(value, "x-") \/ StartsWith(value, "y-")))
        THEN IF key = "position" THEN FoldLeft(processXY, s0, SplitTrim(value))
             ELSE processXY(s0, value)
        ELSE IF key = "constraints"
            \/ (isShorthand /\ (StartsWith(value, "h-") \/ StartsWith(value, "v-")))
        THEN IF key = "constraints" THEN FoldLeft(processConstraint, s0, SplitTrim(value))
             ELSE processConstraint(s0, value)
        ELSE IF isShorthand /\ StartsWith(value, "z-")
        THEN processZIndex(s0, value)
        ELSE IF isShorthand
        THEN [s0 EXCEPT !.warnings = Append(@,
                 "Unknown or misplaced Position token: \"" \o value \o "\".")]
        ELSE s0

\* the default z-index of a fixed element, with its test of zIndexClass left
\* out: mutant of PositionDefaultZ
PositionDefaultZAlways(s0) ==
    IF Contains(s0.explicitPositionClasses, "fixed")
    THEN [s0 EXCEPT !.zIndexClass = "z-50"] ELSE s0

\* the default z-index of a fixed element
PositionDefaultZ(s0) ==
    IF s0.zIndexClass = "" /\ Contains(s0.explicitPositionClasses, "fixed")
    THEN [s0 EXCEPT !.zIndexClass = "z-50"] ELSE s0

\* class generation when ignoreAutoLayout is true, without the transform half
\* of a centre constraint: mutant of PositionFixedClasses
PositionFixedClassesNoTransform(s0) ==
    LET Off(s, c) == [s EXCEPT !.positionOffsetClasses = Append(@, c)]
        OffIf(s, cond, c) == IF cond THEN Off(s, c) ELSE s
        a1 == OffIf(s0, s0.alignmentValues.h = << "left" >>, "left-0")
        a2 == OffIf(a1, s0.alignmentValues.h = << "right" >>, "right-0")
        a3 == OffIf(a2, s0.alignmentValues.v = << "top" >>, "top-0")
        a4 == OffIf(a3, s0.alignmentValues.v = << "bottom" >>, "bottom-0")
        \* if (positionValues.x): set and not the empty string
        p1 == OffIf(a4, s0.positionValues.x \notin {<< >>, << "" >>},
                    "left-[" \o Head(s0.positionValues.x) \o "]")
        p2 == OffIf(p1, s0.positionValues.y \notin {<< >>, << "" >>},
                    "top-[" \o Head(s0.positionValues.y) \o "]")
        ch == s0.constraintValues.h
        h1 == IF ch = << "left" >>
              THEN OffIf(p2, ~Contains(p2.positionOffsetClasses, "right-0"), "left-0")
              ELSE IF ch = << "right" >>
              THEN OffIf(p2, ~Contains(p2.positionOffsetClasses, "left-0"), "right-0")
              ELSE IF ch = << "left-right" >> THEN Off(Off(p2, "left-0"), "right-0")
              ELSE IF ch = << "center" >>
              THEN Off(p2, "left-1/2")
              ELSE IF ch = << "scale" >>
              THEN [p2 EXCEPT !.classes = Append(@, "w-full")]
              ELSE p2
        cv == s0.constraintValues.v
        v1 == IF cv = << "top" >>
              THEN OffIf(h1, ~Contains(h1.positionOffsetClasses, "bottom-0"), "top-0")
              ELSE IF cv = << "bottom" >>
              THEN OffIf(h1, ~Contains(h1.positionOffsetClasses, "top-0"), "bottom-0")
              ELSE IF cv = << "top-bottom" >> THEN Off(Off(h1, "top-0"), "bottom-0")
              ELSE IF cv = << "center" >>
              THEN Off(h1, "top-1/2")
              ELSE IF cv = << "scale" >>
              THEN [h1 EXCEPT !.classes = Append(@, "h-full")]
              ELSE h1
    IN  PositionDefaultZ(v1)

\* class generation when ignoreAutoLayout is true
PositionFixedClasses(s0) ==
    LET Off(s, c) == [s EXCEPT !.positionOffsetClasses = Append(@, c)]
        OffIf(s, cond, c) == IF cond THEN Off(s, c) ELSE s
        a1 == OffIf(s0, s0.alignmentValues.h = << "left" >>, "left-0")
        a2 == OffIf(a1, s0.alignmentValues.h = << "right" >>, "right-0")
        a3 == OffIf(a2, s0.alignmentValues.v = << "top" >>, "top-0")
        a4 == OffIf(a3, s0.alignmentValues.v = << "bottom" >>, "bottom-0")
        \* if (positionValues.x): set and not the empty string
        p1 == OffIf(a4, s0.positionValues.x \notin {<< >>, << "" >>},
                    "left-[" \o Head(s0.positionValues.x) \o "]")
        p2 == OffIf(p1, s0.positionValues.y \notin {<< >>, << "" >>},
                    "top-[" \o Head(s0.positionValues.y) \o "]")
        ch == s0.constraintValues.h
        h1 == IF ch = << "left" >>
              THEN OffIf(p2, ~Contains(p2.positionOffsetClasses, "right-0"), "left-0")
              ELSE IF ch = << "right" >>
              THEN OffIf(p2, ~Contains(p2.positionOffsetClasses, "left-0"), "right-0")
              ELSE IF ch = << "left-right" >> THEN Off(Off(p2, "left-0"), "right-0")
              ELSE IF ch = << "center" >>
              THEN [Off(p2, "left-1/2") EXCEPT
                        !.transformClasses = Append(@, "-translate-x-1/2")]
              ELSE IF ch = << "scale" >>
              THEN [p2 EXCEPT !.classes = Append(@, "w-full")]
              ELSE p2
        cv == s0.constraintValues.v
        v1 == IF cv = << "top" >>
              THEN OffIf(h1, ~Contains(h1.positionOffsetClasses, "bottom-0"), "top-0")
              ELSE IF cv = << "bottom" >>
              THEN OffIf(h1, ~Contains(h1.positionOffsetClasses, "top-0"), "bottom-0")
              ELSE IF cv = << "top-bottom" >> THEN Off(Off(h1, "top-0"), "bottom-0")
              ELSE IF cv = << "center" >>
              THEN [Off(h1, "top-1/2") EXCEPT
                        !.transformClasses = Append(@, "-translate-y-1/2")]
              ELSE IF cv = << "scale" >>
              THEN [h1 EXCEPT !.classes = Append(@, "h-full")]
              ELSE h1
    IN  PositionDefaultZ(v1)

\* validation when ignoreAutoLayout is false, without the check of the x/y
\* position values
PositionFlowChecksNoPosition(s0) ==
    LET Err(s, cond, m) == IF cond THEN [s EXCEPT !.errors = Append(@, m)] ELSE s
        HasKeys(o, f1, f2) == o[f1] # << >> \/ o[f2] # << >>
        e1 == Err(s0, HasKeys(s0.alignmentValues, "h", "v"),
                  "Alignment properties (align-left, etc.) are only available when \"ignore-auto-layout\" is TRUE.")
        e3 == Err(e1, HasKeys(s0.constraintValues, "h", "v"),
                  "Constraint properties (h-..., v-...) are only available when \"ignore-auto-layout\" is TRUE.")
    IN  IF /\ (e3.transformClasses # << >> \/ e3.zIndexClass # "")
           /\ ~Contains(e3.explicitPositionClasses, "fixed")
           /\ e3.zIndexClass # ""
           /\ ~Contains(e3.explicitPositionClasses, "relative")
           /\ ~e3.isFixed
        THEN [e3 EXCEPT !.explicitPositionClasses = Append(@, "relative"),
                        !.warnings = Append(@,
                            "Added 'relative' positioning because z-index was specified without 'ignore-auto-layout=TRUE'.")]
        ELSE e3

\* validation when ignoreAutoLayout is false
PositionFlowChecks(s0) ==
    LET Err(s, cond, m) == IF cond THEN [s EXCEPT !.errors = Append(@, m)] ELSE s
        HasKeys(o, f1, f2) == o[f1] # << >> \/ o[f2] # << >>
        e1 == Err(s0, HasKeys(s0.alignmentValues, "h", "v"),
                  "Alignment properties (align-left, etc.) are only available when \"ignore-auto-layout\" is TRUE.")
        e2 == Err(e1, HasKeys(s0.positionValues, "x", "y"),
                  "Position properties (x-#px, y-#px) are only available when \"ignore-auto-layout\" is TRUE.")
        e3 == Err(e2, HasKeys(s0.constraintValues, "h", "v"),
                  "Constraint properties (h-..., v-...) are only available when \"ignore-auto-layout\" is TRUE.")
    IN  IF /\ (e3.transformClasses # << >> \/ e3.zIndexClass # "")
           /\ ~Contains(e3.explicitPositionClasses, "fixed")
           /\ e3.zIndexClass # ""
           /\ ~Contains(e3.explicitPositionClasses, "relative")
           /\ ~e3.isFixed
        THEN [e3 EXCEPT !.explicitPositionClasses = Append(@, "relative"),
                        !.warnings = Append(@,
                            "Added 'relative' positioning because z-index was specified without 'ignore-auto-layout=TRUE'.")]
        ELSE e3

\* post-parsing validation, class generation and the returned object
PositionFinish(s0) ==
    LET s1 == IF s0.ignoreAutoLayout = "null"
              THEN [s0 EXCEPT !.errors = Append(@,
                        "\"ignore-auto-layout\" is required in Position. Defaulting to FALSE."),
                              !.ignoreAutoLayout = "false",
                              !.isFixed = FALSE]
              ELSE s0
        s2 == IF ~s1.rotationDefined
              THEN [s1 EXCEPT !.errors = Append(@, "\"rotation\" is required in Position.")]
              ELSE s1
        s3 == IF s2.ignoreAutoLayout = "true" THEN PositionFixedClasses(s2)
              ELSE PositionFlowChecks(s2)
        withZ == IF s3.zIndexClass # "" THEN Append(s3.classes, s3.zIndexClass)
                 ELSE s3.classes
    IN  [classes |-> Unique(withZ \o s3.explicitPositionClasses
                              \o s3.positionOffsetClasses \o s3.transformClasses),
         errors |-> s3.errors,
         warnings |-> s3.warnings,
         isFixed |-> s3.isFixed]

\* the result for an empty or missing Position string
PositionEmpty ==
    [classes |-> << >>,
     errors |-> << "Position property string is empty or missing. It is required." >>,
     warnings |-> << >>,
     isFixed |-> FALSE]

parsePosition(positionString) ==
    IF TrimStr(positionString) = "" THEN PositionEmpty
    ELSE PositionFinish(FoldLeft(PositionToken, PositionStart,
                                 tokenizeFigScriptString(positionString)))

-----------------------------------------------------------------------------
(* Layout parser: parseLayout.ts (src/unnamed/part_000).  Emoji: :ud:        *)
(* vertical, :lr: horizontal, :wrap:, :scissors:, :check:, and the nine      *)
(* alignment markers :nw: :n: :ne: :w: :center: :e: :sw: :s: :se:.  gapClass *)
(* null is "" (it is only ever assigned non-empty strings).                  *)

Push(s0, field, cls) == [s0 EXCEPT ![field] = Append(@, cls)]
Error(s0, m) == [s0 EXCEPT !.errors = Append(@, m)]
Warning(s0, m) == [s0 EXCEPT !.warnings = Append(@, m)]

\* layoutString.startsWith('Auto{') && layoutString.endsWith('}')
IsAutoWrapped(layoutString) ==
    StartsWith(layoutString, "Auto{") /\ EndsWith(layoutString, "}")

\* processedLayoutString
LayoutProcessed(layoutString) ==
    IF IsAutoWrapped(layoutString)
    THEN Substring2(layoutString, 5, Len(layoutString) - 1)
    ELSE layoutString

\* the tokens the forEach loop of parseLayout runs over
LayoutTokens(layoutString) == tokenizeFigScriptString(LayoutProcessed(layoutString))

\* the mode after the Auto{...} and Auto-token checks
LayoutExplicitMode(layoutString) ==
    LET tempTokens == tokenizeFigScriptString(layoutString)
    IN  IF IsAutoWrapped(layoutString) THEN "AUTO"
        ELSE IF /\ Includes(layoutString, "Auto")
                /\ \E i \in DOMAIN tempTokens :
                      \/ tempTokens[i] = Bare("Auto")
                      \/ /\ isKeyValuePair(tempTokens[i])
                         /\ toLowerCase(tempTokens[i].key) = "mode"
                         /\ toLowerCase(tempTokens[i].value) = "auto"
        THEN "AUTO"
        ELSE "UNKNOWN"

\* hasAutoLayoutKeywords
hasAutoLayoutKeywords(toks) ==
    \E i \in DOMAIN toks :
        LET val == IF isKeyValuePair(toks[i]) THEN toks[i].key ELSE toks[i].value
        IN  \E w \in {"flow", "gap", "fill", "hug", ":ud:", ":lr:", ":wrap:", ":center:"} :
                Includes(val, w)

\* the local variables of parseLayout when the token loop starts
LayoutStart(layoutString) ==
    LET explicit == LayoutExplicitMode(layoutString)
        inferred == hasAutoLayoutKeywords(LayoutTokens(layoutString))
    IN  [classes |-> << >>, errors |-> << >>,
         warnings |->
            IF explicit # "UNKNOWN" THEN << >>
            ELSE IF inferred
            THEN << "Layout mode inferred as \"AUTO\" due to presence of Auto Layout keywords. For clarity, explicitly use \"Layout=Auto{...}\"." >>
            ELSE << "Layout mode inferred as \"STANDARD\". For Auto Layout, use \"Layout=Auto{...}\"." >>,
         mode |-> IF explicit # "UNKNOWN" THEN explicit
                  ELSE IF inferred THEN "AUTO" ELSE "STANDARD",
         clipContent |-> FALSE,
         dimensionClasses |-> << >>,
         paddingClasses |-> << >>,
         spacingClasses |-> << >>,
         flowClasses |-> << >>,
         alignmentClasses |-> << >>,
         gapClass |-> "",
         settingsAlignBaseline |-> FALSE]

\* /^\d+\/\d+$/.test(s)
IsFraction(s) ==
    \E p \in 2..(Len(s) - 1) :
        /\ Ch(s, p) = "/"
        /\ AllDigits(SubSeq(s, 1, p - 1))
        /\ AllDigits(SubSeq(s, p + 1, Len(s)))

addDimensionClass(s0, cls) == Push(s0, "dimensionClasses", cls)

\* the width and the height branch of processDimension; d is "w" or "h"
processAxisDimension(s0, dimVal, isShorthand, d, name) ==
    IF dimVal = d \o "-fill" /\ s0.mode = "AUTO" THEN addDimensionClass(s0, d \o "-full")
    ELSE IF dimVal = d \o "-hug" /\ s0.mode = "AUTO" THEN addDimensionClass(s0, d \o "-auto")
    ELSE IF IsPx(Substring(dimVal, 2))
    THEN addDimensionClass(s0, d \o "-[" \o Substring(dimVal, 2) \o "]")
    ELSE IF IsFraction(Substring(dimVal, 2)) THEN addDimensionClass(s0, dimVal)
    ELSE IF s0.mode = "STANDARD" /\ dimVal \in {d \o "-fill", d \o "-hug"}
    THEN Error(s0, "\"" \o d \o "-fill\" and \"" \o d
                    \o "-hug\" are only for Auto Layout mode. Use \"" \o d
                    \o "-#px\" for Standard Layout.")
    ELSE IF isShorthand THEN addDimensionClass(s0, dimVal)
    ELSE Error(s0, "Invalid " \o name \o " dimension: \"" \o dimVal \o "\".")

processDimension(s0, dimVal, isShorthand) ==
    IF StartsWith(dimVal, "w-") THEN processAxisDimension(s0, dimVal, isShorthand, "w", "width")
    ELSE IF StartsWith(dimVal, "h-")
    THEN processAxisDimension(s0, dimVal, isShorthand, "h", "height")
    ELSE IF s0.mode = "AUTO"
    THEN IF \E m \in {"min-w-", "max-w-", "min-h-", "max-h-"} : StartsWith(dimVal, m)
         THEN addDimensionClass(s0, SubSeq(dimVal, 1, 6) \o "[" \o Substring(dimVal, 6) \o "]")
         ELSE Error(s0, "Invalid Auto Layout dimension token: \"" \o dimVal \o "\".")
    ELSE Error(s0, "Min/max dimensions are only for Auto Layout. Invalid token: \""
                    \o dimVal \o "\".")

processClipContent(s0, value) ==
    IF value \in {"TRUE(:scissors:)", "TRUE", ":scissors:"} THEN [s0 EXCEPT !.clipContent = TRUE]
    ELSE IF value = "FALSE" THEN [s0 EXCEPT !.clipContent = FALSE]
    ELSE Error(s0, "Invalid clip-content value: \"" \o value
                    \o "\". Use TRUE(:scissors:) or FALSE.")

processSpacing(s0, spaceVal) ==
    LET num == parseNumericValue(Substring(spaceVal, 2))
        px == "[" \o FormatNumber(num.value) \o "px]"
    IN  IF StartsWith(spaceVal, "v-")
        THEN IF num.matched /\ num.unit = "px" THEN Push(s0, "spacingClasses", "space-y-" \o px)
             ELSE Error(s0, "Invalid vertical spacing: \"" \o spaceVal \o "\". Use \"v-#px\".")
        ELSE IF StartsWith(spaceVal, "h-")
        THEN IF num.matched /\ num.unit = "px" THEN Push(s0, "spacingClasses", "space-x-" \o px)
             ELSE Error(s0, "Invalid horizontal spacing: \"" \o spaceVal \o "\". Use \"h-#px\".")
        ELSE Error(s0, "Unknown spacing token: \"" \o spaceVal \o "\".")

\* processFlow with a wrap that does not look at the flow set so far: mutant
\* of processFlow
processFlowWrapAlways(s0, flowVal) ==
    IF flowVal \in {"vertical", ":ud:"} THEN Push(s0, "flowClasses", "flex-col")
    ELSE IF flowVal \in {"horizontal", ":lr:"} THEN Push(s0, "flowClasses", "flex-row")
    ELSE IF flowVal \in {"wrap", ":wrap:"} THEN Push(s0, "flowClasses", "flex-wrap")
    ELSE Error(s0, "Unknown flow token: \"" \o flowVal \o "\".")

processFlow(s0, flowVal) ==
    IF flowVal \in {"vertical", ":ud:"} THEN Push(s0, "flowClasses", "flex-col")
    ELSE IF flowVal \in {"horizontal", ":lr:"} THEN Push(s0, "flowClasses", "flex-row")
    ELSE IF flowVal \in {"wrap", ":wrap:"}
    THEN IF Contains(s0.flowClasses, "flex-row") THEN Push(s0, "flowClasses", "flex-wrap")
         ELSE Error(s0, "\"wrap(:wrap:)\" can only be used with \"horizontal(:lr:)\" flow.")
    ELSE Error(s0, "Unknown flow token: \"" \o flowVal \o "\".")

AlignmentMarkers == {":nw:", ":n:", ":ne:", ":w:", ":center:", ":e:", ":sw:", ":s:", ":se:"}

processLayoutAlignment(s0, value) ==
    LET s1 == [s0 EXCEPT !.alignmentClasses = << >>]
        justify == IF value \in {":nw:", ":w:", ":sw:"} THEN "justify-start"
                   ELSE IF value \in {":n:", ":center:", ":s:"} THEN "justify-center"
                   ELSE "justify-end"
        items == IF value \in {":nw:", ":n:", ":ne:"} THEN "items-start"
                 ELSE IF value \in {":w:", ":center:", ":e:"} THEN "items-center"
                 ELSE "items-end"
    IN  IF value \in AlignmentMarkers
        THEN [s1 EXCEPT !.alignmentClasses = << justify, items >>]
        ELSE Error(s1, "Invalid alignment emoji: \"" \o value \o "\".")

processGap(s0, value, isShorthand) ==
    LET gapVal == IF isShorthand /\ StartsWith(value, "gap-") THEN Substring(value, 4)
                  ELSE value
        num == parseNumericValue(gapVal)
    IN  IF gapVal = "auto" THEN [s0 EXCEPT !.gapClass = "justify-between"]
        ELSE IF num.matched /\ num.unit = "px"
        THEN [s0 EXCEPT !.gapClass = "gap-[" \o FormatNumber(num.value) \o "px]"]
        ELSE Error(s0, "Invalid gap value: \"" \o value \o "\". Use \"#px\" or \"auto\".")

\* pc.startsWith('p-') && !pc.startsWith('px-') && !pc.startsWith('py-')
IsAllPadding(c) == StartsWith(c, "p-")

processPadding(s0, padVal) ==
    LET Br(prefix, n) == prefix \o "-[" \o Substring(padVal, n) \o "]"
        direct == \E q \in {"p-", "px-", "py-", "pt-", "pb-", "pl-", "pr-"} :
                      StartsWith(padVal, q)
        cls == IF StartsWith(padVal, "all-") THEN Br("p", 4)
               ELSE IF StartsWith(padVal, "h-") THEN Br("px", 2)
               ELSE IF StartsWith(padVal, "v-") THEN Br("py", 2)
               ELSE IF StartsWith(padVal, "l-") THEN Br("pl", 2)
               ELSE IF StartsWith(padVal, "r-") THEN Br("pr", 2)
               ELSE IF StartsWith(padVal, "t-") THEN Br("pt", 2)
               ELSE IF StartsWith(padVal, "b-") THEN Br("pb", 2)
               ELSE padVal
        valid == direct \/ \E q \in {"all-", "h-", "v-", "l-", "r-", "t-", "b-"} :
                               StartsWith(padVal, q)
        \* the classes the filter(...).forEach(splice) of each case removes
        Removed(c) ==
            IF StartsWith(cls, "p-") THEN ~StartsWith(c, "p")
            ELSE IF StartsWith(cls, "px-")
            THEN StartsWith(c, "pl-") \/ StartsWith(c, "pr-") \/ IsAllPadding(c)
            ELSE IF StartsWith(cls, "py-")
            THEN StartsWith(c, "pt-") \/ StartsWith(c, "pb-") \/ IsAllPadding(c)
            ELSE FALSE
    IN  IF ~valid THEN Error(s0, "Invalid padding token: \"" \o padVal \o "\".")
        ELSE [s0 EXCEPT !.paddingClasses =
                 Append(SelectSeq(@, LAMBDA c : ~Removed(c)), cls)]

processSettings(s0, value) ==
    LET s1 == IF Includes(value, "align-text-baseline") \/ value = ":check:"
              THEN [s0 EXCEPT !.settingsAlignBaseline = TRUE] ELSE s0
    IN  IF Includes(value, "strokes-included") \/ Includes(value, "canvas-stacking")
        THEN Warning(s1, "Layout settings \"" \o value
                          \o "\" (strokes-included, canvas-stacking) are not currently supported and will be ignored.")
        ELSE s1

\* the Auto Layout branch of the token loop
LayoutAutoToken(s0, key, value, isShorthand) ==
    IF key = "flow" \/ (isShorthand /\ value \in
            {"vertical", ":ud:", "horizontal", ":lr:", "wrap", ":wrap:"})
    THEN IF key = "flow" THEN FoldLeft(processFlow, s0, SplitTrim(value))
         ELSE processFlow(s0, value)
    ELSE IF key = "alignment" \/ (isShorthand /\ value \in AlignmentMarkers)
    THEN processLayoutAlignment(s0, value)
    ELSE IF key = "gap"
        \/ (isShorthand /\ (StartsWith(value, "gap-") \/ IsPx(value) \/ value = "auto"))
    THEN processGap(s0, value, isShorthand)
    ELSE IF key = "padding"
        \/ (isShorthand /\ \E q \in {"p-", "px-", "py-", "pt-", "pb-", "pl-", "pr-", "all-"} :
                                StartsWith(value, q))
    THEN IF key = "padding" THEN FoldLeft(processPadding, s0, SplitTrim(value))
         ELSE processPadding(s0, value)
    ELSE IF key = "settings" \/ (isShorthand /\ Includes(value, "align-text-baseline"))
    THEN processSettings(s0, value)
    ELSE IF isShorthand
    THEN Warning(s0, "Unknown or misplaced Auto Layout token: \"" \o value \o "\".")
    ELSE s0

\* the body of tokens.forEach
LayoutToken(s0, token) ==
    LET key == TokenKey(token)
        value == token.value
        isShorthand == IsShorthand(token)
        Dim(s, v) == processDimension(s, v, isShorthand)
    IN  IF key = "dimensions"
            \/ (isShorthand /\ \E q \in {"w-", "h-", "min-w-", "max-w-", "min-h-", "max-h-"} :
                                    StartsWith(value, q))
        THEN IF key = "dimensions" THEN FoldLeft(Dim, s0, SplitTrim(value))
             ELSE Dim(s0, value)
        ELSE IF key = "clip-content"
            \/ (isShorthand /\ value \in {":scissors:", "TRUE", "FALSE"})
        THEN processClipContent(s0, value)
        ELSE IF s0.mode = "STANDARD"
            /\ (key = "spacing"
                \/ (isShorthand /\ (StartsWith(value, "v-") \/ StartsWith(value, "h-"))))
        THEN IF key = "spacing" THEN FoldLeft(processSpacing, s0, SplitTrim(value))
             ELSE processSpacing(s0, value)
        ELSE IF s0.mode = "AUTO" THEN LayoutAutoToken(s0, key, value, isShorthand)
        ELSE IF isShorthand
        THEN Warning(s0, "Unknown or misplaced Layout token: \"" \o value \o "\" for "
                          \o s0.mode \o " mode.")
        ELSE s0

\* class assembly in Standard mode
LayoutAssembleStandard(s0) ==
    LET s1 == [s0 EXCEPT !.classes = @ \o s0.spacingClasses]
    IN  IF \/ s0.flowClasses # << >> \/ s0.alignmentClasses # << >> \/ s0.gapClass # ""
           \/ s0.paddingClasses # << >> \/ s0.settingsAlignBaseline
        THEN Error(s1, "Auto Layout properties (flow, alignment, gap, padding, settings) were found in Standard Layout mode. These will be ignored. Use Layout=Auto{...} for Auto Layout.")
        ELSE s1

\* class assembly in Auto mode, with flex added after the classes already
\* assembled instead of before them
LayoutAssembleAutoAppend(s0) ==
    LET s1 == IF /\ \/ s0.flowClasses # << >> \/ s0.alignmentClasses # << >>
                    \/ s0.gapClass # "" \/ s0.settingsAlignBaseline
                 /\ ~Contains(s0.classes, "flex")
              THEN [s0 EXCEPT !.classes = @ \o << "flex" >>] ELSE s0
        s2 == [s1 EXCEPT !.classes = @ \o s0.flowClasses \o s0.alignmentClasses
                                       \o (IF s0.gapClass # "" THEN << s0.gapClass >>
                                           ELSE << >>)]
        s3 == IF ~s0.settingsAlignBaseline THEN s2
              ELSE IF ~\E i \in DOMAIN s0.alignmentClasses :
                          StartsWith(s0.alignmentClasses[i], "items-")
              THEN Push(s2, "classes", "items-baseline")
              ELSE Warning(s2, "align-text-baseline setting was provided, but an items-* alignment was also set. align-text-baseline might be overridden.")
        s4 == [s3 EXCEPT !.classes = @ \o s0.paddingClasses]
    IN  IF s0.spacingClasses # << >>
        THEN Error(s4, "Standard Layout 'spacing' properties (v-#px, h-#px for space-x/y) are not applicable in Auto Layout mode. Use 'gap' and 'padding' instead.")
        ELSE s4

\* class assembly in Auto mode
LayoutAssembleAuto(s0) ==
    LET s1 == IF /\ \/ s0.flowClasses # << >> \/ s0.alignmentClasses # << >>
                    \/ s0.gapClass # "" \/ s0.settingsAlignBaseline
                 /\ ~Contains(s0.classes, "flex")
              THEN [s0 EXCEPT !.classes = << "flex" >> \o @] ELSE s0
        s2 == [s1 EXCEPT !.classes = @ \o s0.flowClasses \o s0.alignmentClasses
                                       \o (IF s0.gapClass # "" THEN << s0.gapClass >>
                                           ELSE << >>)]
        s3 == IF ~s0.settingsAlignBaseline THEN s2
              ELSE IF ~\E i \in DOMAIN s0.alignmentClasses :
                          StartsWith(s0.alignmentClasses[i], "items-")
              THEN Push(s2, "classes", "items-baseline")
              ELSE Warning(s2, "align-text-baseline setting was provided, but an items-* alignment was also set. align-text-baseline might be overridden.")
        s4 == [s3 EXCEPT !.classes = @ \o s0.paddingClasses]
    IN  IF s0.spacingClasses # << >>
        THEN Error(s4, "Standard Layout 'spacing' properties (v-#px, h-#px for space-x/y) are not applicable in Auto Layout mode. Use 'gap' and 'padding' instead.")
        ELSE s4

\* the required-field validation without the dimensions check: mutant of
\* LayoutRequired
LayoutRequiredNoDimensions(s0) ==
    IF s0.mode = "AUTO" /\ ~Contains(s0.flowClasses, "flex-col")
                        /\ ~Contains(s0.flowClasses, "flex-row")
    THEN Error(s0, "Auto Layout \"flow\" (vertical/horizontal) is required.")
    ELSE s0

\* validation of the required fields
LayoutRequired(s0) ==
    LET s1 == IF s0.mode = "AUTO" /\ ~Contains(s0.flowClasses, "flex-col")
                                  /\ ~Contains(s0.flowClasses, "flex-row")
              THEN Error(s0, "Auto Layout \"flow\" (vertical/horizontal) is required.")
              ELSE s0
        s2 == IF s0.mode = "AUTO" /\ s0.alignmentClasses = << >>
              THEN Warning(s1, "Auto Layout \"alignment\" is not specified. Defaulting to browser/flex defaults (usually justify-start, items-stretch). Consider setting an explicit alignment.")
              ELSE s1
        s3 == IF s0.mode = "AUTO" /\ s0.gapClass = ""
              THEN Warning(s2, "Auto Layout \"gap\" is not specified. Defaulting to no gap. Consider setting \"gap-0px\" or \"gap-auto\".")
              ELSE s2
    IN  IF s0.dimensionClasses = << >>
        THEN Error(s3, "Layout \"dimensions\" (w, h) are required.")
        ELSE s3

\* the code after the token loop and the returned object
LayoutFinish(s0) ==
    LET s1 == [s0 EXCEPT !.classes = @ \o s0.dimensionClasses]
        s2 == IF s0.clipContent THEN Push(s1, "classes", "overflow-hidden") ELSE s1
        s3 == IF s0.mode = "STANDARD" THEN LayoutAssembleStandard(s2)
              ELSE LayoutAssembleAuto(s2)
        s4 == LayoutRequired(s3)
    IN  [classes |-> Unique(s4.classes), errors |-> s4.errors, warnings |-> s4.warnings]

\* the result for an empty or missing Layout string
LayoutEmpty ==
    [classes |-> << >>,
     errors |-> << "Layout property string is empty or missing. It is required." >>,
     warnings |-> << >>]

parseLayout(layoutString) ==
    IF TrimStr(layoutString) = "" THEN LayoutEmpty
    ELSE LayoutFinish(FoldLeft(LayoutToken, LayoutStart(layoutString),
                               LayoutTokens(layoutString)))

-----------------------------------------------------------------------------
(* Fill parser: parseFill.ts (src/unnamed/part_003).  typeDefined null is     *)
(* "null"; imageUrl null is << >>, a set URL is << url >>.                    *)

\* array.filter(keep)
Filter(seq, Keep(_)) == SelectSeq(seq, Keep)

HexDigits == {Ch("0123456789ABCDEFabcdef", i) : i \in 1..22}

\* /^#([0-9A-Fa-f]{3}|[0-9A-Fa-f]{6})$/.test(value)
IsHexColor(value) ==
    /\ Len(value) \in {4, 7}
    /\ Ch(value, 1) = "#"
    /\ \A i \in 2..Len(value) : Ch(value, i) \in HexDigits

\* the local variables of parseFill when the token loop starts
FillStart ==
    [classes |-> << >>, errors |-> << >>, warnings |-> << >>,
     typeDefined |-> "null", colorDefined |-> FALSE, opacityDefined |-> FALSE,
     imageUrl |-> << >>]

\* the filter that drops the previous color classes
FillKeptOnColorReset(c) ==
    ~StartsWith(c, "bg-") \/ StartsWith(c, "bg-opacity-") \/ StartsWith(c, "bg-[url(")

\* 1. type
processFillType(s0, value) ==
    IF value = "solid" THEN [s0 EXCEPT !.typeDefined = "solid"]
    ELSE IF value = "image"
    THEN IF s0.colorDefined
         THEN [Warning(s0, "Color was defined before type=image; color will be ignored for image fill.")
                 EXCEPT !.typeDefined = "image",
                        !.classes = Filter(@, FillKeptOnColorReset),
                        !.colorDefined = FALSE]
         ELSE [s0 EXCEPT !.typeDefined = "image"]
    ELSE Error(s0, "Invalid fill type: \"" \o value \o "\". Must be \"solid\" or \"image\".")

\* 2. color
processFillColor(s0, value) ==
    LET s1 == IF s0.colorDefined
              THEN [Warning(s0, "Fill color defined multiple times. Last definition used: \""
                                 \o value \o "\".")
                      EXCEPT !.classes = Filter(@, FillKeptOnColorReset)]
              ELSE s0
        s2 == IF IsHexColor(value)
              THEN [Push(s1, "classes", "bg-[" \o value \o "]") EXCEPT !.colorDefined = TRUE]
              ELSE IF StartsWith(value, "#")
              THEN Error(s1, "Invalid hex color format for fill: \"" \o value \o "\".")
              ELSE IF StartsWith(value, "tailwind-")
              THEN [Push(s1, "classes", "bg-" \o Substring(value, 9))
                      EXCEPT !.colorDefined = TRUE]
              ELSE IF StartsWith(value, "layer-")
              THEN [Push(s1, "classes", "bg-" \o value) EXCEPT !.colorDefined = TRUE]
              ELSE IF StartsWith(value, "bg-")
              THEN [Push(s1, "classes", value) EXCEPT !.colorDefined = TRUE]
              ELSE Error(s1, "Unsupported fill color token: \"" \o value
                              \o "\". Use #HEX, tailwind-color, layer-color, or bg-color.")
    IN  IF s0.typeDefined = "image"
        THEN Warning(s0, "Fill color token \"" \o value
                          \o "\" ignored because fill type is \"image\".")
        ELSE IF s2.colorDefined /\ s2.typeDefined = "null"
        THEN [s2 EXCEPT !.typeDefined = "solid"]
        ELSE s2

\* 3. opacity, with the opacityDefined flag left unset
processFillOpacityNoFlag(s0, key, value) ==
    LET opacityValueStr ==
            IF key = "opacity" THEN value
            ELSE IF StartsWith(value, "opacity-") THEN Substring(value, 8)
            ELSE IF EndsWith(value, "%") THEN SubSeq(value, 1, Len(value) - 1)
            ELSE value
        numeric == parseNumericValue(opacityValueStr)
    IN  IF numeric.matched /\ numeric.unit = "null" /\ InPercentRange(numeric.value)
        THEN Push(s0, "classes", "bg-opacity-" \o FormatNumber(numeric.value))
        ELSE Error(s0, "Invalid fill opacity value: \"" \o value
                        \o "\". Must be 0-100 or a percentage like \"50%\".")

\* 3. opacity
processFillOpacity(s0, key, value) ==
    LET opacityValueStr ==
            IF key = "opacity" THEN value
            ELSE IF StartsWith(value, "opacity-") THEN Substring(value, 8)
            ELSE IF EndsWith(value, "%") THEN SubSeq(value, 1, Len(value) - 1)
            ELSE value
        numeric == parseNumericValue(opacityValueStr)
        s1 == IF s0.opacityDefined
              THEN [Warning(s0, "Fill opacity defined multiple times. Last definition used: \""
                                 \o value \o "\".")
                      EXCEPT !.classes = Filter(@, LAMBDA c : ~StartsWith(c, "bg-opacity-"))]
              ELSE s0
    IN  IF numeric.matched /\ numeric.unit = "null" /\ InPercentRange(numeric.value)
        THEN [Push(s1, "classes", "bg-opacity-" \o FormatNumber(numeric.value))
                EXCEPT !.opacityDefined = TRUE]
        ELSE Error(s0, "Invalid fill opacity value: \"" \o value
                        \o "\". Must be 0-100 or a percentage like \"50%\".")

\* 4. image URL
processFillUrl(s0, value) ==
    LET s1 == IF s0.typeDefined = "image" THEN s0
              ELSE Warning(s0, "Image URL \"" \o value
                                \o "\" provided, but fill type is not \"image\". Set type to \"image\" to use this URL.")
        s2 == IF s0.typeDefined = "null"
              THEN [Warning(s1, "Fill type automatically set to \"image\" due to URL presence.")
                      EXCEPT !.typeDefined = "image"]
              ELSE s1
        unwrapped == IF StartsWith(value, "url(") /\ EndsWith(value, ")")
                     THEN Substring2(value, 4, Len(value) - 1) ELSE value
        parsedUrl == IF \/ StartsWith(unwrapped, "'") /\ EndsWith(unwrapped, "'")
                        \/ StartsWith(unwrapped, "\"") /\ EndsWith(unwrapped, "\"")
                     THEN Substring2(unwrapped, 1, Len(unwrapped) - 1) ELSE unwrapped
        s3 == [s2 EXCEPT !.imageUrl = << parsedUrl >>,
                         !.classes = Append(Filter(@, LAMBDA c : ~StartsWith(c, "bg-[url(")),
                                            "bg-[url('" \o parsedUrl \o "')]")]
    IN  IF s0.typeDefined = "solid" THEN s1
        ELSE IF \E i \in DOMAIN s3.classes :
                    \E q \in {"bg-cover", "bg-contain", "bg-center", "bg-no-repeat"} :
                        StartsWith(s3.classes[i], q)
        THEN s3
        ELSE Warning([s3 EXCEPT !.classes = @ \o << "bg-cover", "bg-center", "bg-no-repeat" >>],
                     "Added default bg-cover, bg-center, bg-no-repeat for image fill. Customize as needed.")

\* the body of tokens.forEach
FillToken(s0, token) ==
    LET key == TokenKey(token)
        value == token.value
        isShorthand == IsShorthand(token)
    IN  IF key = "type" \/ (isShorthand /\ value \in {"solid", "image"})
        THEN processFillType(s0, value)
        ELSE IF key = "color"
            \/ (isShorthand /\ \E q \in {"#", "tailwind-", "layer-", "bg-"} : StartsWith(value, q))
        THEN processFillColor(s0, value)
        ELSE IF key = "opacity"
            \/ (isShorthand /\ (\/ EndsWith(value, "%") \/ AllDigits(value)
                                \/ StartsWith(value, "opacity-")))
        THEN processFillOpacity(s0, key, value)
        ELSE IF key = "url"
            \/ (isShorthand /\ \E q \in {"url(", "http://", "https://", "/"} : StartsWith(value, q))
        THEN processFillUrl(s0, value)
        ELSE IF isShorthand
        THEN Warning(s0, "Unknown or misplaced Fill token: \"" \o value \o "\".")
        ELSE s0

\* post-parsing validation, defaults and the returned object
FillFinish(s0) ==
    LET s1 == IF s0.typeDefined = "null"
              THEN Error(s0, "Fill \"type\" (solid/image) is required.") ELSE s0
        s2 == IF s0.typeDefined = "solid" /\ ~s0.colorDefined
              THEN Error(s1, "Fill \"color\" is required when type is \"solid\".") ELSE s1
        s3 == IF s0.typeDefined = "image" /\ s0.imageUrl \in {<< >>, << "" >>}
              THEN Error(s2, "An image URL is required when fill type is \"image\".") ELSE s2
        s4 == IF ~s0.opacityDefined
              THEN Push(Error(s3, "Fill \"opacity\" is required. Defaulting to 100% (bg-opacity-100)."),
                        "classes", "bg-opacity-100")
              ELSE s3
    IN  [classes |-> Unique(s4.classes), errors |-> s4.errors, warnings |-> s4.warnings]

parseFill(fillString) ==
    IF TrimStr(fillString) = "" THEN createParseResult
    ELSE FillFinish(FoldLeft(FillToken, FillStart, tokenizeFigScriptString(fillString)))

-----------------------------------------------------------------------------
(* Stroke parser: parseStroke.ts (src/unnamed/part_001).  Emoji: :up: :down:  *)
(* :left: :right:.  "!key" holds for a bare token and for an empty key.       *)

\* the local variables of parseStroke when the token loop starts
StrokeStart ==
    [classes |-> << >>, errors |-> << >>, warnings |-> << >>,
     colorDefined |-> FALSE, opacityDefined |-> FALSE, weightDefined |-> FALSE]

\* /^border-\[\d+px\]$/.test(c)
IsBorderPx(c) ==
    /\ StartsWith(c, "border-[") /\ EndsWith(c, "px]")
    /\ AllDigits(SubSeq(c, 9, Len(c) - 3))

\* /^border-(t|b|l|r)-\[\d+px\]$/.test(c)
IsSideBorderPx(c) ==
    /\ \E d \in {"t", "b", "l", "r"} : StartsWith(c, "border-" \o d \o "-[")
    /\ EndsWith(c, "px]")
    /\ AllDigits(SubSeq(c, 11, Len(c) - 3))

\* the filter that drops the previous color classes
StrokeKeptOnColorReset(c) ==
    \/ ~StartsWith(c, "border-")
    \/ \E q \in {"border-opacity-", "border-w-", "border-t-", "border-b-",
                 "border-l-", "border-r-"} : StartsWith(c, q)
    \/ IsBorderPx(c)
    \/ IsSideBorderPx(c)

\* 1. color
processStrokeColor(s0, value) ==
    LET s1 == IF s0.colorDefined
              THEN [Warning(s0, "Stroke color defined multiple times. Last definition used: \""
                                 \o value \o "\".")
                      EXCEPT !.classes = Filter(@, StrokeKeptOnColorReset)]
              ELSE s0
    IN  IF IsHexColor(value)
        THEN [Push(s1, "classes", "border-[" \o value \o "]") EXCEPT !.colorDefined = TRUE]
        ELSE IF StartsWith(value, "#")
        THEN Error(s1, "Invalid hex color format for stroke: \"" \o value \o "\".")
        ELSE IF StartsWith(value, "tailwind-")
        THEN [Push(s1, "classes", "border-" \o Substring(value, 9))
                EXCEPT !.colorDefined = TRUE]
        ELSE IF StartsWith(value, "border-")
        THEN [Push(s1, "classes", value) EXCEPT !.colorDefined = TRUE]
        ELSE IF StartsWith(value, "bg-")
        THEN [Push(s1, "classes", "border-" \o Substring(value, 3))
                EXCEPT !.colorDefined = TRUE]
        ELSE Error(s1, "Unsupported stroke color token: \"" \o value
                        \o "\". Use #HEX, tailwind-color, or border-color.")

\* 2. opacity
processStrokeOpacity(s0, key, value) ==
    LET opacityValueStr ==
            IF key = "opacity" THEN value
            ELSE IF StartsWith(value, "opacity-") THEN Substring(value, 8)
            ELSE IF EndsWith(value, "%") THEN SubSeq(value, 1, Len(value) - 1)
            ELSE value
        numeric == parseNumericValue(opacityValueStr)
    IN  IF numeric.matched /\ numeric.unit = "null" /\ InPercentRange(numeric.value)
        THEN [s0 EXCEPT !.classes =
                            Append(Filter(@, LAMBDA c : ~StartsWith(c, "border-opacity-")),
                                   "border-opacity-" \o FormatNumber(numeric.value)),
                        !.opacityDefined = TRUE]
        ELSE Error(s0, "Invalid stroke opacity value: \"" \o value
                        \o "\". Must be 0-100 or a percentage like \"50%\".")

\* 3. position
processStrokePosition(s0, value) ==
    IF toLowerCase(value) = "center" THEN s0
    ELSE Error(s0, "Invalid stroke position: \"" \o value
                    \o "\". Only \"center\" is supported.")

\* the prefixes of a side weight token, with the side each one selects
StrokeSidePrefixes ==
    << [p |-> "t-", side |-> "t"], [p |-> ":up:", side |-> "t"],
       [p |-> "b-", side |-> "b"], [p |-> ":down:", side |-> "b"],
       [p |-> "l-", side |-> "l"], [p |-> ":left:", side |-> "l"],
       [p |-> "r-", side |-> "r"], [p |-> ":right:", side |-> "r"] >>

\* processWeight without the removal of the uniform class by a side token:
\* mutant of processWeight
processWeightKeepUniform(s0, weightToken, key) ==
    LET hits == SelectSeq(StrokeSidePrefixes, LAMBDA e : StartsWith(weightToken, e.p))
        side == IF hits = << >> THEN "null" ELSE hits[1].side
        valStr == IF hits = << >> THEN "" ELSE Substring(weightToken, Len(hits[1].p))
        all == parseNumericValue(Substring(weightToken, 4))
        numeric == parseNumericValue(valStr)
    IN  IF StartsWith(weightToken, "all-")
        THEN IF all.matched /\ all.unit = "px"
             THEN [s0 EXCEPT
                     !.classes =
                         Append(Filter(@, LAMBDA c :
                                    ~(\/ IsBorderPx(c) \/ IsSideBorderPx(c)
                                      \/ c \in {"border-t", "border-b", "border-l", "border-r"}
                                      \/ c = "border" \/ StartsWith(c, "border-w-"))),
                                "border-[" \o FormatNumber(all.value) \o "px]"),
                     !.weightDefined = TRUE]
             ELSE Error(s0, "Invalid stroke weight format for \"all\": \"" \o weightToken
                             \o "\". Use \"all-#px\".")
        ELSE IF side # "null" /\ valStr # ""
        THEN IF numeric.matched /\ numeric.unit = "px"
             THEN [s0 EXCEPT
                     !.classes =
                         Append(Filter(@, LAMBDA c :
                                    ~StartsWith(c, "border-" \o side \o "-")),
                                "border-" \o side \o "-[" \o FormatNumber(numeric.value)
                                    \o "px]"),
                     !.weightDefined = TRUE]
             ELSE Error(s0, "Invalid stroke weight format for side \"" \o side \o "\": \""
                             \o weightToken \o "\". Use \"side-#px\" or \"EMOJI#px\".")
        ELSE IF side = "null" /\ key # "weight"
        THEN Error(s0, "Unknown stroke weight token: \"" \o weightToken \o "\".")
        ELSE s0

\* processWeight
processWeight(s0, weightToken, key) ==
    LET hits == SelectSeq(StrokeSidePrefixes, LAMBDA e : StartsWith(weightToken, e.p))
        side == IF hits = << >> THEN "null" ELSE hits[1].side
        valStr == IF hits = << >> THEN "" ELSE Substring(weightToken, Len(hits[1].p))
        all == parseNumericValue(Substring(weightToken, 4))
        numeric == parseNumericValue(valStr)
    IN  IF StartsWith(weightToken, "all-")
        THEN IF all.matched /\ all.unit = "px"
             THEN [s0 EXCEPT
                     !.classes =
                         Append(Filter(@, LAMBDA c :
                                    ~(\/ IsBorderPx(c) \/ IsSideBorderPx(c)
                                      \/ c \in {"border-t", "border-b", "border-l", "border-r"}
                                      \/ c = "border" \/ StartsWith(c, "border-w-"))),
                                "border-[" \o FormatNumber(all.value) \o "px]"),
                     !.weightDefined = TRUE]
             ELSE Error(s0, "Invalid stroke weight format for \"all\": \"" \o weightToken
                             \o "\". Use \"all-#px\".")
        ELSE IF side # "null" /\ valStr # ""
        THEN IF numeric.matched /\ numeric.unit = "px"
             THEN [s0 EXCEPT
                     !.classes =
                         Append(Filter(@, LAMBDA c :
                                    /\ ~(IsBorderPx(c) \/ StartsWith(c, "border-w-"))
                                    /\ ~StartsWith(c, "border-" \o side \o "-")),
                                "border-" \o side \o "-[" \o FormatNumber(numeric.value)
                                    \o "px]"),
                     !.weightDefined = TRUE]
             ELSE Error(s0, "Invalid stroke weight format for side \"" \o side \o "\": \""
                             \o weightToken \o "\". Use \"side-#px\" or \"EMOJI#px\".")
        ELSE IF side = "null" /\ key # "weight"
        THEN Error(s0, "Unknown stroke weight token: \"" \o weightToken \o "\".")
        ELSE s0

\* the body of tokens.forEach
StrokeToken(s0, token) ==
    LET key == TokenKey(token)
        value == token.value
        Weight(s, v) == processWeight(s, v, key)
    IN  IF key = "color"
            \/ (key = "" /\ \E q \in {"#", "tailwind-", "bg-", "border-"} : StartsWith(value, q))
        THEN processStrokeColor(s0, value)
        ELSE IF key = "opacity"
            \/ (key = "" /\ (\/ EndsWith(value, "%") \/ value \in {"0", "100"}
                             \/ StartsWith(value, "opacity-")))
        THEN processStrokeOpacity(s0, key, value)
        ELSE IF key = "position" \/ value = "center"
        THEN processStrokePosition(s0, value)
        ELSE IF key = "weight"
            \/ (key = "" /\ (\/ StartsWith(value, "all-")
                             \/ \E i \in DOMAIN StrokeSidePrefixes :
                                    StartsWith(value, StrokeSidePrefixes[i].p)))
        THEN IF key = "weight" /\ Includes(value, ",")
             THEN FoldLeft(Weight, s0, SplitTrim(value))
             ELSE Weight(s0, value)
        ELSE IF IsShorthand(token)
        THEN Warning(s0, "Unknown or misplaced stroke token: \"" \o value \o "\".")
        ELSE s0

\* post-parsing validation, the base border class and the returned object
StrokeFinish(s0) ==
    LET s1 == IF ~s0.colorDefined THEN Error(s0, "Stroke \"color\" is required.") ELSE s0
        s2 == IF ~s0.weightDefined THEN Error(s1, "Stroke \"weight\" is required.") ELSE s1
        Some(P(_)) == \E i \in DOMAIN s2.classes : P(s2.classes[i])
        classes ==
            IF /\ s2.classes # << >>
               /\ ~Some(LAMBDA c : StartsWith(c, "border-") \/ c = "border")
               /\ Some(LAMBDA c : StartsWith(c, "border-["))
               /\ ~Some(LAMBDA c : \E q \in {"border-t-", "border-b-", "border-l-", "border-r-"} :
                                       StartsWith(c, q))
            THEN << "border" >> \o s2.classes
            ELSE s2.classes
    IN  [classes |-> Unique(classes), errors |-> s2.errors, warnings |-> s2.warnings]

parseStroke(strokeString) ==
    IF TrimStr(strokeString) = "" THEN createParseResult
    ELSE StrokeFinish(FoldLeft(StrokeToken, StrokeStart,
                               tokenizeFigScriptString(strokeString)))

-----------------------------------------------------------------------------
(* Appearance parser: parseAppearance.ts (src/unnamed/part_002).  Emoji:      *)
(* :eye:, :check:, :corn:, and the corner markers :nw: :ne: :sw: :se:.        *)

\* the local variables of parseAppearance when the token loop starts
AppearanceStart ==
    [classes |-> << >>, errors |-> << >>, warnings |-> << >>,
     hideDefined |-> FALSE, opacityDefined |-> FALSE, cornerRadiusDefined |-> FALSE]

\* the alternatives of cornerRegex, with the class infix of each one
CornerTypes ==
    << [t |-> "all", infix |-> ""],
       [t |-> "top-left", infix |-> "tl-"], [t |-> ":nw:", infix |-> "tl-"],
       [t |-> "top-right", infix |-> "tr-"], [t |-> ":ne:", infix |-> "tr-"],
       [t |-> "bottom-left", infix |-> "bl-"], [t |-> ":sw:", infix |-> "bl-"],
       [t |-> "bottom-right", infix |-> "br-"], [t |-> ":se:", infix |-> "br-"] >>

\* the digits of "<digits>px" with an optional leading "-", "" when s has not that shape
CornerDigits(s) ==
    LET body == IF StartsWith(s, "-") THEN Substring(s, 1) ELSE s
        digits == SubSeq(body, 1, Len(body) - 2)
    IN  IF EndsWith(body, "px") /\ AllDigits(digits) THEN digits ELSE ""

\* radiusValue.match(cornerRegex): the matching alternatives (at most one)
CornerMatch(radiusValue) ==
    SelectSeq(CornerTypes, LAMBDA e :
        StartsWith(radiusValue, e.t) /\ CornerDigits(Substring(radiusValue, Len(e.t))) # "")

\* 1. hide
processHide(s0, value) ==
    LET isHidden == value \in {"TRUE(:check:)", "TRUE", "HIDDEN", ":check:"}
        s1 == IF s0.hideDefined
              THEN [Warning(s0, "Hide property defined multiple times. Last definition used: \""
                                 \o value \o "\".")
                      EXCEPT !.classes = Filter(@, LAMBDA c : c # "hidden")]
              ELSE s0
        s2 == IF isHidden THEN Push(s1, "classes", "hidden") ELSE s1
    IN  IF ~isHidden /\ value \notin {"FALSE(:eye:)", "FALSE", ":eye:"}
        THEN Error(s0, "Invalid value for hide: \"" \o value
                        \o "\". Use TRUE(:check:)/HIDDEN or FALSE(:eye:).")
        ELSE [s2 EXCEPT !.hideDefined = TRUE]

\* 2. opacity
processOpacity(s0, key, value) ==
    LET opacityValueStr ==
            IF key = "opacity" THEN value
            ELSE IF StartsWith(value, "opacity-") THEN Substring(value, 8)
            ELSE IF EndsWith(value, "%") THEN SubSeq(value, 1, Len(value) - 1)
            ELSE value
        numeric == parseNumericValue(opacityValueStr)
        s1 == IF s0.opacityDefined
              THEN [Warning(s0, "Opacity property defined multiple times. Last definition used: \""
                                 \o value \o "\".")
                      EXCEPT !.classes = Filter(@, LAMBDA c : ~StartsWith(c, "opacity-"))]
              ELSE s0
    IN  IF numeric.matched /\ numeric.unit = "null" /\ InPercentRange(numeric.value)
        THEN [Push(s1, "classes", "opacity-" \o FormatNumber(numeric.value))
                EXCEPT !.opacityDefined = TRUE]
        ELSE Error(s0, "Invalid opacity value: \"" \o value
                        \o "\". Must be 0-100 or a percentage like \"50%\".")

\* processRadiusValue applied to each element of values in turn (forEach)
RECURSIVE processRadiusValues(_, _, _, _)
processRadiusValues(s0, values, key, value) ==
    IF values = << >> THEN s0
    ELSE
    LET radiusValue == Head(values)
        isShorthand == key = ""
        NoRounded(seq) == Filter(seq, LAMBDA c : ~StartsWith(c, "rounded-"))
        collapsedAll == /\ StartsWith(radiusValue, ":corn:")
                        /\ CornerDigits(Substring(radiusValue, 6)) # ""
                        /\ Ch(radiusValue, 7) # "-"
        collapsedIndividual == StartsWith(radiusValue, ":corn:(") /\ EndsWith(radiusValue, ")")
        directMatch == CornerMatch(radiusValue)
        type == directMatch[1]
        val == CornerDigits(Substring(radiusValue, Len(type.t)))
        \* c.startsWith('rounded-[') && !c.includes('-')
        Conflicting(c) == StartsWith(c, "rounded-[") /\ ~Includes(c, "-")
        s1 == IF collapsedAll
              THEN [s0 EXCEPT !.classes = Append(NoRounded(@), "rounded-["
                                  \o CornerDigits(Substring(radiusValue, 6)) \o "px]"),
                              !.cornerRadiusDefined = TRUE]
              ELSE IF collapsedIndividual
              THEN [processRadiusValues(s0,
                        SplitTrim(Substring2(radiusValue, 7, Len(radiusValue) - 1)),
                        key, value)
                      EXCEPT !.cornerRadiusDefined = TRUE]
              ELSE IF directMatch # << >>
              THEN [s0 EXCEPT
                      !.classes =
                          IF type.t = "all" THEN Append(NoRounded(@), "rounded-[" \o val \o "px]")
                          ELSE Append(Filter(@, LAMBDA c : ~Conflicting(c)),
                                      "rounded-" \o type.infix \o "[" \o val \o "px]"),
                      !.cornerRadiusDefined = TRUE]
              ELSE IF ~isShorthand /\ key = "corner-radius"
              THEN Error(s0, "Invalid corner-radius value format: \"" \o radiusValue \o "\".")
              ELSE IF isShorthand /\ StartsWith(value, "corner-")
              THEN Error(s0, "Malformed shorthand corner-radius: \"" \o radiusValue
                              \o "\". Use \"all-#px\", \"side-#px\", or emoji forms.")
              ELSE s0
    IN  processRadiusValues(s1, Tail(values), key, value)

\* the body of tokens.forEach
AppearanceToken(s0, token) ==
    LET key == TokenKey(token)
        value == token.value
        isShorthand == IsShorthand(token)
    IN  IF key = "hide"
            \/ (isShorthand /\ (\/ value \in {":eye:", "HIDDEN"}
                                \/ StartsWith(value, "FALSE") \/ StartsWith(value, "TRUE")))
        THEN processHide(s0, value)
        ELSE IF key = "opacity"
            \/ (isShorthand /\ (\/ EndsWith(value, "%") \/ AllDigits(value)
                                \/ StartsWith(value, "opacity-")))
        THEN processOpacity(s0, key, value)
        ELSE IF key = "corner-radius"
            \/ (isShorthand /\ (\/ StartsWith(value, "corner-") \/ StartsWith(value, "all-")
                                \/ StartsWith(value, ":corn:") \/ CornerMatch(value) # << >>))
        THEN IF key = "corner-radius"
             THEN processRadiusValues(s0, SplitTrim(value), key, value)
             ELSE processRadiusValues(s0, << value >>, key, value)
        ELSE IF key = "corner-smoothing" \/ (isShorthand /\ Includes(value, "smoothing"))
        THEN Warning(s0, "FigScript \"corner-smoothing\" property (\"" \o value
                          \o "\") is ignored as it's not supported by CSS/Tailwind.")
        ELSE IF isShorthand
        THEN Warning(s0, "Unknown or misplaced Appearance token: \"" \o value \o "\".")
        ELSE s0

\* post-parsing validation that returns no class once a token was rejected
AppearanceFinishAbort(s0) ==
    LET s1 == IF ~s0.hideDefined
              THEN Error(s0, "Appearance \"hide\" property is required. Defaulting to visible (hide=FALSE).")
              ELSE s0
        s2 == IF ~s0.opacityDefined
              THEN Push(Error(s1, "Appearance \"opacity\" property is required. Defaulting to 100% (opacity-100)."),
                        "classes", "opacity-100")
              ELSE s1
    IN  [classes |-> IF s0.errors # << >> THEN << >> ELSE Unique(s2.classes),
         errors |-> s2.errors, warnings |-> s2.warnings]

\* post-parsing validation, defaults and the returned object
AppearanceFinish(s0) ==
    LET s1 == IF ~s0.hideDefined
              THEN Error(s0, "Appearance \"hide\" property is required. Defaulting to visible (hide=FALSE).")
              ELSE s0
        s2 == IF ~s0.opacityDefined
              THEN Push(Error(s1, "Appearance \"opacity\" property is required. Defaulting to 100% (opacity-100)."),
                        "classes", "opacity-100")
              ELSE s1
    IN  [classes |-> Unique(s2.classes), errors |-> s2.errors, warnings |-> s2.warnings]

\* the result for an empty or missing Appearance string, with the message
\* reported as an error
AppearanceEmptyAsError ==
    [classes |-> << >>,
     errors |-> << "Appearance string is empty. Applying default appearance (visible, 100% opacity, no corner radius)." >>,
     warnings |-> << >>]

\* the result for an empty or missing Appearance string
AppearanceEmpty ==
    [classes |-> << >>, errors |-> << >>,
     warnings |-> << "Appearance string is empty. Applying default appearance (visible, 100% opacity, no corner radius)." >>]

parseAppearance(appearanceString) ==
    IF TrimStr(appearanceString) = "" THEN AppearanceEmpty
    ELSE AppearanceFinish(FoldLeft(AppearanceToken, AppearanceStart,
                                   tokenizeFigScriptString(appearanceString)))

-----------------------------------------------------------------------------
(* Tokenizer runs: every string over TokAlphabet up to MaxLen characters *)

TokAlphabet == {"a", ",", "(", ")", "=", SP}

RECURSIVE StringsOfLen(_, _)
StringsOfLen(alphabet, n) ==
    IF n = 0 THEN {""}
    ELSE {s \o c : s \in StringsOfLen(alphabet, n - 1), c \in alphabet}

TokStrings == UNION {StringsOfLen(TokAlphabet, n) : n \in 0..MaxLen}

\* the string form of a token: the bare value, or key=value
TokenForm(t) == IF isKeyValuePair(t) THEN t.key \o "=" \o t.value ELSE t.value

JoinForms(toks) == Join([i \in DOMAIN toks |-> TokenForm(toks[i])], ",")

InitTokenizer ==
    /\ pc = "start"
    /\ tokInput \in TokStrings
    /\ splits = {}
    /\ tokens = << >>
    /\ retokens = << >>
    /\ RunIdle
    /\ AggIdle

Tokenize ==
    /\ pc = "start"
    /\ pc' = "tokenized"
    /\ splits' = SplitPoints(tokInput)
    /\ tokens' = tokenizeFigScriptString(tokInput)
    /\ UNCHANGED << tokInput, retokens, runVars, aggVars >>

Retokenize ==
    /\ pc = "tokenized"
    /\ pc' = "retokenized"
    /\ retokens' = tokenizeFigScriptString(JoinForms(tokens))
    /\ UNCHANGED << tokInput, splits, tokens, runVars, aggVars >>

NextTokenizer == Tokenize \/ Retokenize

SpecTokenizer == InitTokenizer /\ [][NextTokenizer]_vars

-----------------------------------------------------------------------------
(* Tokenizer claims *)

\* number of unclosed "(" before position i
Depth(s, i) ==
    Cardinality({k \in 1..(i - 1) : Ch(s, k) = "("})
        - Cardinality({k \in 1..(i - 1) : Ch(s, k) = ")"})

Balanced(s) ==
    /\ Depth(s, Len(s) + 1) = 0
    /\ \A i \in 1..Len(s) : Depth(s, i + 1) >= 0

CountChar(s, ch) == Cardinality({k \in 1..Len(s) : Ch(s, k) = ch})

IsTrimmed(s) == s = "" \/ (Ch(s, 1) # SP /\ Ch(s, Len(s)) # SP)

\* C1: in a string with balanced parentheses, nested or not, no comma that
\* lies between an opening parenthesis and its matching closing parenthesis
\* is used as a split point.
C1_NoSplitInsideParens ==
    (pc # "start" /\ Balanced(tokInput))
        => \A i \in splits : Depth(tokInput, i) = 0

\* the segments of the raw string that are not empty after trimming
KeptSegments(s) ==
    LET segs == SplitSegments(s)
    IN  SelectSeq([i \in DOMAIN segs |-> TrimStr(segs[i])], NonEmpty)

\* C2: every non-empty trimmed segment with exactly one "=" becomes a
\* key/value token with trimmed key and value, every other non-empty trimmed
\* segment becomes a bare token equal to the segment, and a segment that is
\* empty after trimming produces no token.
C2_TokenShapes ==
    pc # "start" =>
        LET kept == KeptSegments(tokInput)
        IN  /\ Len(tokens) = Len(kept)
            /\ \A i \in DOMAIN kept :
                  IF CountChar(kept[i], "=") = 1
                  THEN LET p == CHOOSE k \in 1..Len(kept[i]) : Ch(kept[i], k) = "="
                       IN  /\ tokens[i].kind = "kv"
                           /\ tokens[i].key = TrimStr(SubSeq(kept[i], 1, p - 1))
                           /\ tokens[i].value = TrimStr(SubSeq(kept[i], p + 1, Len(kept[i])))
                           /\ IsTrimmed(tokens[i].key) /\ IsTrimmed(tokens[i].value)
                  ELSE /\ tokens[i].kind = "bare"
                       /\ tokens[i].value = kept[i]
                       /\ Len(tokens[i].value) > 0

\* C2 witness: a key/value token whose key was trimmed, a bare token and a
\* dropped empty segment in one run
C2_Witness ==
    /\ pc = "tokenized"
    /\ \E i \in DOMAIN tokens : tokens[i].kind = "kv" /\ Len(tokens[i].value) > 0
    /\ \E i \in DOMAIN tokens : tokens[i].kind = "bare"
    /\ Len(SplitSegments(tokInput)) > Len(tokens)

\* C3: writing the tokens back in their string form, joined with commas, and
\* tokenizing again yields the same token sequence.
C3_Idempotent == pc = "retokenized" => retokens = tokens

\* C3 witness: a run whose joined string forms differ from the raw string and
\* keep a comma protected by a parenthesis
C3_Witness ==
    /\ pc = "retokenized"
    /\ Len(tokens) >= 1
    /\ JoinForms(tokens) # tokInput
    /\ \E i \in DOMAIN tokens : Includes(TokenForm(tokens[i]), ",")

-----------------------------------------------------------------------------
(* Parser runs: one domain parser on one raw string, the forEach loop taken  *)
(* one token at a time.  The raw strings are the comma-joined sequences of a *)
(* vocabulary of tokens.                                                     *)

SeqsUpTo(V, n) == UNION {[1..k -> V] : k \in 0..n}

JoinedInputs(V, n) == {Join(q, ",") : q \in SeqsUpTo(V, n)}

InitRun(p, inputs) ==
    /\ pc = "start"
    /\ parser = p
    /\ raw \in inputs
    /\ st = << >>
    /\ rest = << >>
    /\ result = << >>
    /\ TokIdle
    /\ AggIdle

\* entry of a parser: the early return for a blank string, else the tokens
BeginRun(p, empty, start, toks) ==
    /\ pc = "start"
    /\ parser = p
    /\ IF TrimStr(raw) = ""
       THEN pc' = "done" /\ result' = empty /\ UNCHANGED << st, rest >>
       ELSE pc' = "loop" /\ st' = start /\ rest' = toks /\ UNCHANGED result
    /\ UNCHANGED << parser, raw, tokVars, aggVars >>

\* one iteration of tokens.forEach
StepRun(p, Token(_, _)) ==
    /\ pc = "loop"
    /\ parser = p
    /\ rest # << >>
    /\ st' = Token(st, Head(rest))
    /\ rest' = Tail(rest)
    /\ UNCHANGED << pc, parser, raw, result, tokVars, aggVars >>

\* the code after the loop, up to the return
EndRun(p, Finish(_)) ==
    /\ pc = "loop"
    /\ parser = p
    /\ rest = << >>
    /\ pc' = "done"
    /\ result' = Finish(st)
    /\ UNCHANGED << parser, raw, st, rest, tokVars, aggVars >>

-----------------------------------------------------------------------------
(* Position runs *)

PositionVocab ==
    {"TRUE", "ignore-auto-layout=TRUE(:check:)", "ignore-auto-layout=FALSE",
     "ignore-auto-layout=maybe",
     "r-90", "rotation=r-90",
     "z-10", "z-50", "z-7", "z-x",
     "x-5px"}

PositionInputs == JoinedInputs(PositionVocab, MaxPositionTokens)

InitPosition == InitRun("position", PositionInputs)
PositionBegin ==
    BeginRun("position", PositionEmpty, PositionStart, tokenizeFigScriptString(raw))
PositionStep == StepRun("position", PositionToken)
PositionEnd == EndRun("position", PositionFinish)

NextPosition == PositionBegin \/ PositionStep \/ PositionEnd

SpecPosition == InitPosition /\ [][NextPosition]_vars

-----------------------------------------------------------------------------
(* Position scope runs: flag values with alignment, x/y and constraint       *)
(* tokens, valid and invalid, in every order                                 *)

PositionScopeVocab ==
    {"TRUE", "FALSE", "ignore-auto-layout=maybe",
     "align-left", "alignment=:up:", "align-middle",
     "x-5px", "position=y-7px", "h-center", "v-scale"}

InitPositionScope ==
    InitRun("position", JoinedInputs(PositionScopeVocab, MaxPositionTokens))

SpecPositionScope == InitPositionScope /\ [][NextPosition]_vars

-----------------------------------------------------------------------------
(* Position constraint runs: flag values with centre and other constraint    *)
(* tokens, a rotation and an x position, in every order                      *)

PositionCenterVocab ==
    {"TRUE", "FALSE", "h-center", "v-center", "constraints=h-center",
     "v-top", "h-scale", "r-90", "x-5px"}

SpecPositionCenter ==
    /\ InitRun("position", JoinedInputs(PositionCenterVocab, MaxPositionTokens))
    /\ [][NextPosition]_vars

-----------------------------------------------------------------------------
(* Layout runs: the comma-joined sequences of LayoutVocab, bare and wrapped  *)
(* in Auto{...}                                                              *)

LayoutVocab ==
    {"dimensions={w-100px,h-50px}", "w-100px", "w-fill", "h-50px",
     "flow=horizontal", "vertical", "gap=10px", "gap=auto", "20.50px"}

LayoutInputs ==
    LET bodies == JoinedInputs(LayoutVocab, MaxLayoutTokens)
    IN  bodies \cup {"Auto{" \o b \o "}" : b \in bodies}

InitLayout == InitRun("layout", LayoutInputs)
LayoutBegin == BeginRun("layout", LayoutEmpty, LayoutStart(raw), LayoutTokens(raw))
LayoutStep == StepRun("layout", LayoutToken)
LayoutEnd == EndRun("layout", LayoutFinish)

NextLayout == LayoutBegin \/ LayoutStep \/ LayoutEnd

SpecLayout == InitLayout /\ [][NextLayout]_vars

-----------------------------------------------------------------------------
(* Color runs: parseFill and parseStroke on the comma-joined sequences of    *)
(* their color vocabularies                                                  *)

FillColorVocab ==
    {"#fff", "color=#00ff00", "tailwind-red-500", "layer-1", "bg-blue-500",
     "color=bg-opacity-50", "#12", "50%", "image", "solid"}

StrokeColorVocab ==
    {"#fff", "color=#00ff00", "tailwind-red-500", "bg-blue-500", "border-black",
     "border-t-red-500", "color=red", "50%", "all-2px", "t-1px"}

InitFill == InitRun("fill", JoinedInputs(FillColorVocab, MaxColorTokens))
FillBegin == BeginRun("fill", createParseResult, FillStart, tokenizeFigScriptString(raw))
FillStep == StepRun("fill", FillToken)
FillEnd == EndRun("fill", FillFinish)

InitStroke == InitRun("stroke", JoinedInputs(StrokeColorVocab, MaxColorTokens))
StrokeBegin ==
    BeginRun("stroke", createParseResult, StrokeStart, tokenizeFigScriptString(raw))
StrokeStep == StepRun("stroke", StrokeToken)
StrokeEnd == EndRun("stroke", StrokeFinish)

InitColor == InitFill \/ InitStroke

NextColor ==
    \/ FillBegin \/ FillStep \/ FillEnd
    \/ StrokeBegin \/ StrokeStep \/ StrokeEnd

SpecColor == InitColor /\ [][NextColor]_vars

-----------------------------------------------------------------------------
(* Layout inference runs: strings that are not wrapped in Auto{...}, with    *)
(* auto-layout keywords in bare tokens, in keys and in values, and with the  *)
(* Auto token                                                                *)

LayoutInferenceVocab ==
    {"w-100px", "vertical", "w-fill", ":lr:",
     "flow=vertical", "dimensions=w-hug", "alignment=:center:",
     "Auto"}

SpecLayoutInference ==
    /\ InitRun("layout", JoinedInputs(LayoutInferenceVocab, MaxLayoutTokens))
    /\ [][NextLayout]_vars

-----------------------------------------------------------------------------
(* Layout size runs: Auto{...} strings of width, min-width, padding and gap  *)
(* tokens with pixel values and with values that are not numbers             *)

LayoutSizeVocab ==
    {"w-100px", "dimensions=h-abc",
     "min-w-10px", "min-w-abc",
     "padding=all-5px", "padding=all-abc",
     "gap=10px", "gap=abc"}

SpecLayoutSizes ==
    /\ InitRun("layout", {"Auto{" \o b \o "}" :
                              b \in JoinedInputs(LayoutSizeVocab, MaxLayoutTokens)})
    /\ [][NextLayout]_vars

-----------------------------------------------------------------------------
(* Layout wrap runs: Auto{...} strings of horizontal, vertical and wrap      *)
(* tokens, named, marked and keyed, in every order                           *)

LayoutWrapVocab ==
    {"horizontal", ":lr:", "flow=horizontal",
     "wrap", ":wrap:", "flow=wrap",
     "vertical", "w-100px"}

SpecLayoutWrap ==
    /\ InitRun("layout", {"Auto{" \o b \o "}" :
                              b \in JoinedInputs(LayoutWrapVocab, MaxLayoutTokens)})
    /\ [][NextLayout]_vars

-----------------------------------------------------------------------------
(* Layout mode runs: tokens of both modes, bare and wrapped in Auto{...}     *)

LayoutModeVocab ==
    {"w-100px", "vertical", ":nw:", "10px", "p-4", "settings=align-text-baseline",
     "spacing=v-5px"}

LayoutModeInputs ==
    LET bodies == JoinedInputs(LayoutModeVocab, MaxLayoutTokens)
    IN  bodies \cup {"Auto{" \o b \o "}" : b \in bodies}

InitLayoutModes == InitRun("layout", LayoutModeInputs)

SpecLayoutModes == InitLayoutModes /\ [][NextLayout]_vars

(* Padding runs: Auto{...} strings of padding tokens of every scope *)

PaddingVocab ==
    {"padding=all-10px", "padding=all-20px", "padding=h-5px", "padding=v-6px",
     "padding=l-2px", "padding=l-3px", "padding=t-4px"}

InitPadding ==
    InitRun("layout", {"Auto{" \o b \o "}" : b \in JoinedInputs(PaddingVocab, MaxLayoutTokens)})

SpecPadding == InitPadding /\ [][NextLayout]_vars

-----------------------------------------------------------------------------
(* Fill runs: parseFill on type, URL and opacity tokens, valid and invalid   *)

FillVocab ==
    {"image", "type=image", "solid", "#fff", "url(/a.png)",
     "50%", "opacity=100", "opacity=50%", "150%", "opacity-20"}

InitFillTokens == InitRun("fill", JoinedInputs(FillVocab, MaxColorTokens))

NextFill == FillBegin \/ FillStep \/ FillEnd

SpecFill == InitFillTokens /\ [][NextFill]_vars

-----------------------------------------------------------------------------
(* Fill image runs: parseFill on type, URL and color tokens of every form    *)
(* the color branch accepts                                                  *)

FillImageVocab ==
    {"image", "type=image", "solid", "url(/a.png)",
     "#fff", "tailwind-red-500", "layer-1", "bg-blue-500", "color=#000",
     "bg-opacity-50"}

SpecFillImage ==
    /\ InitRun("fill", JoinedInputs(FillImageVocab, MaxColorTokens))
    /\ [][NextFill]_vars

-----------------------------------------------------------------------------
(* Runs of all five parsers: blank strings, and the comma-joined sequences   *)
(* of rejected and accepted tokens of each parser                            *)

ProbePosition == {"ignore-auto-layout=maybe", "z-x", "TRUE", "r-90", "z-10"}
ProbeLayout ==
    {"gap=wide", "flow=diagonal", "alignment=middle", "vertical", "w-100px", "gap=10px",
     ":center:"}
ProbeAppearance == {"hide=maybe", "150%", "HIDDEN", "50%", "all-5px"}
ProbeFill == {"#12", "150%", "#fff", "50%", "solid"}
ProbeStroke == {"#12", "all-x", "border-black", "all-2px", "50%"}

BlankInputs == {"", SP, SP \o SP}

ProbeInputs(V) == BlankInputs \cup JoinedInputs(V, MaxProbeTokens)

InitAppearance == InitRun("appearance", ProbeInputs(ProbeAppearance))
AppearanceBegin ==
    BeginRun("appearance", AppearanceEmpty, AppearanceStart, tokenizeFigScriptString(raw))
AppearanceStep == StepRun("appearance", AppearanceToken)
AppearanceEnd == EndRun("appearance", AppearanceFinish)

InitParsers ==
    \/ InitRun("position", ProbeInputs(ProbePosition))
    \/ InitRun("layout", BlankInputs \cup
                    {"Auto{" \o b \o "}" : b \in JoinedInputs(ProbeLayout, MaxProbeTokens)})
    \/ InitAppearance
    \/ InitRun("fill", ProbeInputs(ProbeFill))
    \/ InitRun("stroke", ProbeInputs(ProbeStroke))

NextParsers ==
    \/ PositionBegin \/ PositionStep \/ PositionEnd
    \/ LayoutBegin \/ LayoutStep \/ LayoutEnd
    \/ AppearanceBegin \/ AppearanceStep \/ AppearanceEnd
    \/ FillBegin \/ FillStep \/ FillEnd
    \/ StrokeBegin \/ StrokeStep \/ StrokeEnd

SpecParsers == InitParsers /\ [][NextParsers]_vars

-----------------------------------------------------------------------------
(* Corner-radius runs: parseAppearance on all-corners and per-corner tokens, *)
(* named, marked and keyed, with a hide token between them                   *)

RadiusVocab ==
    {"all-10px", ":corn:8px", "corner-radius=all-2px",
     "top-left-5px", ":ne:6px", "corner-radius=bottom-left-4px",
     "HIDDEN"}

NextAppearance == AppearanceBegin \/ AppearanceStep \/ AppearanceEnd

SpecRadius ==
    /\ InitRun("appearance", JoinedInputs(RadiusVocab, MaxAppearanceTokens))
    /\ [][NextAppearance]_vars

-----------------------------------------------------------------------------
(* Stroke weight runs: parseStroke on uniform and per-side weight tokens,    *)
(* named, marked and keyed, with a color token between them                  *)

WeightVocab ==
    {"all-1px", "weight=all-3px", "all-2px",
     "t-1px", ":up:3px", "weight=b-2px", "l-4px", "r-5px",
     "#fff"}

NextStroke == StrokeBegin \/ StrokeStep \/ StrokeEnd

SpecWeight ==
    /\ InitRun("stroke", JoinedInputs(WeightVocab, MaxColorTokens))
    /\ [][NextStroke]_vars

-----------------------------------------------------------------------------
(* Opacity runs: parseAppearance and parseFill on opacity values inside and  *)
(* outside 0..100, plain and percent, bare and keyed                         *)

OpacityVocab ==
    {"50", "50%", "opacity=50", "opacity=50%",
     "0", "100%", "opacity=100", "opacity=0%",
     "150", "150%", "opacity=150"}

SpecOpacity ==
    /\ \/ InitRun("appearance", JoinedInputs(OpacityVocab, MaxOpacityTokens))
       \/ InitRun("fill", JoinedInputs(OpacityVocab, MaxOpacityTokens))
    /\ [][NextAppearance \/ NextFill]_vars

-----------------------------------------------------------------------------
(* The FigScript component: the useMemo callback of FigScipt.tsx that calls  *)
(* the five domain parsers and merges their results                          *)

PropPosition == {"", "TRUE,h-scale", "ignore-auto-layout=FALSE,r-90,z-10"}
PropLayout == {"", "Auto{horizontal,w-fill,h-hug}", "w-100px"}
PropAppearance == {"", "FALSE,100", "HIDDEN,all-5px"}
PropFill == {"", "#fff,50%", "image"}
PropStroke == {"", "#000,all-1px", "t-2px"}

PropInputs ==
    [Position : PropPosition, Layout : PropLayout, Appearance : PropAppearance,
     Fill : PropFill, Stroke : PropStroke]

\* collectedClasses, collectedErrors, collectedWarnings after the pushes of one result
Collect(r) ==
    collected' = [classes |-> collected.classes \o r.classes,
                  errors |-> collected.errors \o r.errors,
                  warnings |-> collected.warnings \o r.warnings]

\* processParser with the test of 'isFixed' in result left out, so that a
\* result without the flag clears fixedPosition: mutant of processParser
processParserNoGuard(name, r) ==
    /\ Collect(r)
    /\ fixedPosition' = ("isFixed" \in DOMAIN r /\ r.isFixed)
    /\ invoked' = Append(invoked, name)

\* processParser(parser, input), r being parser(input)
processParser(name, r) ==
    /\ Collect(r)
    /\ fixedPosition' = IF "isFixed" \in DOMAIN r THEN r.isFixed ELSE fixedPosition
    /\ invoked' = Append(invoked, name)

\* the inline handling of the Position result
CollectPositionResult ==
    LET positionResult == parsePosition(props.Position)
    IN  /\ Collect(positionResult)
        /\ fixedPosition' = positionResult.isFixed
        /\ invoked' = Append(invoked, "position")

\* the returned object without the removal of repeated classes: mutant of
\* AggregateResult
AggregateResultNoDedupe(c, fixed) ==
    [allClasses |-> c.classes, isFixed |-> fixed,
     errors |-> c.errors, warnings |-> c.warnings]

\* the object the useMemo callback returns
AggregateResult(c, fixed) ==
    [allClasses |-> Unique(c.classes), isFixed |-> fixed,
     errors |-> c.errors, warnings |-> c.warnings]

InitComponent(start, inputs) ==
    /\ pc = start
    /\ props \in inputs
    /\ collected = createParseResult
    /\ fixedPosition = FALSE
    /\ invoked = << >>
    /\ memo = << >>
    /\ TokIdle
    /\ RunIdle

Init == InitComponent("position", PropInputs)

CollectPosition ==
    /\ pc = "position"
    /\ CollectPositionResult
    /\ pc' = "layout"
    /\ UNCHANGED << props, memo, tokVars, runVars >>

ProcessLayout ==
    /\ pc = "layout"
    /\ processParser("layout", parseLayout(props.Layout))
    /\ pc' = "appearance"
    /\ UNCHANGED << props, memo, tokVars, runVars >>

ProcessAppearance ==
    /\ pc = "appearance"
    /\ processParser("appearance", parseAppearance(props.Appearance))
    /\ pc' = "fill"
    /\ UNCHANGED << props, memo, tokVars, runVars >>

ProcessFill ==
    /\ pc = "fill"
    /\ processParser("fill", parseFill(props.Fill))
    /\ pc' = "stroke"
    /\ UNCHANGED << props, memo, tokVars, runVars >>

ProcessStroke ==
    /\ pc = "stroke"
    /\ processParser("stroke", parseStroke(props.Stroke))
    /\ pc' = "return"
    /\ UNCHANGED << props, memo, tokVars, runVars >>

Return ==
    /\ pc = "return"
    /\ memo' = AggregateResult(collected, fixedPosition)
    /\ pc' = "done"
    /\ UNCHANGED << props, collected, fixedPosition, invoked, tokVars, runVars >>

Next ==
    \/ CollectPosition \/ ProcessLayout \/ ProcessAppearance
    \/ ProcessFill \/ ProcessStroke \/ Return

Spec == Init /\ [][Next]_vars

-----------------------------------------------------------------------------
(* The same five calls taken in any order: each call is one step, as the     *)
(* parsers are synchronous                                                   *)

\* the property strings of the any-order runs: blank or not, for each property
AnyOrderInputs ==
    [Position : {"", "TRUE,h-scale"}, Layout : {"", "Auto{horizontal,w-fill,h-hug}"},
     Appearance : {"", "HIDDEN,all-5px"}, Fill : {"", "#fff,50%"},
     Stroke : {"", "t-2px"}]

InitAnyOrder == InitComponent("any", AnyOrderInputs)

AnyPosition ==
    /\ pc = "any"
    /\ ~Contains(invoked, "position")
    /\ CollectPositionResult
    /\ UNCHANGED << pc, props, memo, tokVars, runVars >>

AnyLayout ==
    /\ pc = "any"
    /\ ~Contains(invoked, "layout")
    /\ processParser("layout", parseLayout(props.Layout))
    /\ UNCHANGED << pc, props, memo, tokVars, runVars >>

AnyAppearance ==
    /\ pc = "any"
    /\ ~Contains(invoked, "appearance")
    /\ processParser("appearance", parseAppearance(props.Appearance))
    /\ UNCHANGED << pc, props, memo, tokVars, runVars >>

AnyFill ==
    /\ pc = "any"
    /\ ~Contains(invoked, "fill")
    /\ processParser("fill", parseFill(props.Fill))
    /\ UNCHANGED << pc, props, memo, tokVars, runVars >>

AnyStroke ==
    /\ pc = "any"
    /\ ~Contains(invoked, "stroke")
    /\ processParser("stroke", parseStroke(props.Stroke))
    /\ UNCHANGED << pc, props, memo, tokVars, runVars >>

AnyReturn ==
    /\ pc = "any"
    /\ Len(invoked) = 5
    /\ memo' = AggregateResult(collected, fixedPosition)
    /\ pc' = "done"
    /\ UNCHANGED << props, collected, fixedPosition, invoked, tokVars, runVars >>

NextAnyOrder ==
    \/ AnyPosition \/ AnyLayout \/ AnyAppearance \/ AnyFill \/ AnyStroke \/ AnyReturn

SpecAnyOrder == InitAnyOrder /\ [][NextAnyOrder]_vars

-----------------------------------------------------------------------------
(* Component claims *)

\* the result of the named domain parser on its own property string
ParserResult(name) ==
    IF name = "position" THEN parsePosition(props.Position)
    ELSE IF name = "layout" THEN parseLayout(props.Layout)
    ELSE IF name = "appearance" THEN parseAppearance(props.Appearance)
    ELSE IF name = "fill" THEN parseFill(props.Fill)
    ELSE parseStroke(props.Stroke)

CodeOrder == << "position", "layout", "appearance", "fill", "stroke" >>

\* the concatenation of one field of the five results, taken in the given order
RECURSIVE ConcatField(_, _)
ConcatField(order, field) ==
    IF order = << >> THEN << >>
    ELSE ParserResult(Head(order))[field] \o ConcatField(Tail(order), field)

FirstIndex(seq, x) == CHOOSE i \in DOMAIN seq : seq[i] = x /\ \A j \in 1..(i - 1) : seq[j] # x

\* out is all with every repeated element removed and the first occurrence
\* kept in place
IsFirstSeenDedupe(out, all) ==
    /\ \A i, j \in DOMAIN out : i # j => out[i] # out[j]
    /\ {out[i] : i \in DOMAIN out} = {all[i] : i \in DOMAIN all}
    /\ \A i, j \in DOMAIN out : i < j => FirstIndex(all, out[i]) < FirstIndex(all, out[j])

\* a and b hold the same elements the same number of times
SameElements(a, b) ==
    \A x \in {a[i] : i \in DOMAIN a} \cup {b[i] : i \in DOMAIN b} :
        Cardinality({i \in DOMAIN a : a[i] = x}) = Cardinality({i \in DOMAIN b : b[i] = x})

\* C4: the returned class list is the concatenation of the five parsers'
\* class lists in the order Position, Layout, Appearance, Fill, Stroke with
\* every repeated class removed and the first occurrence kept in place; the
\* errors and the warnings are the concatenations of the five parsers' errors
\* and warnings; isFixed is the isFixed of the Position result
C4_Aggregate ==
    pc = "done" =>
        /\ IsFirstSeenDedupe(memo.allClasses, ConcatField(CodeOrder, "classes"))
        /\ memo.errors = ConcatField(CodeOrder, "errors")
        /\ memo.warnings = ConcatField(CodeOrder, "warnings")
        /\ memo.isFixed = parsePosition(props.Position).isFixed

\* C4 witness: a returned aggregate in which a class that two parsers both
\* yield appears once, with errors, warnings and isFixed = true
C4_Witness ==
    /\ pc = "done" /\ invoked = CodeOrder
    /\ Contains(ParserResult("position").classes, "w-full")
    /\ Contains(ParserResult("layout").classes, "w-full")
    /\ Len(memo.allClasses) < Len(ConcatField(CodeOrder, "classes"))
    /\ memo.allClasses[1] = "w-full"
    /\ memo.errors # << >> /\ memo.warnings # << >>
    /\ memo.isFixed

-----------------------------------------------------------------------------
(* Color claims *)

\* the largest element of a non-empty set of numbers
Last(S) == CHOOSE i \in S : \A j \in S : j <= i

\* the color class a token yields when it is the only token of a Fill or a
\* Stroke string; "" when the token is not a valid color token
ColorClassOf(p, t) ==
    LET alone == IF p = "fill" THEN FillToken(FillStart, t) ELSE StrokeToken(StrokeStart, t)
    IN  IF alone.colorDefined THEN alone.classes[1] ELSE ""

\* a Fill token that sets the type to image: the type token or an image URL
SetsImageType(t) == FillToken(FillStart, t).typeDefined = "image"

\* C6: in parseFill (no token sets the type to image) and in parseStroke, when
\* the string holds two or more valid color tokens the returned classes hold
\* the color class of the last one and none of the different color classes of
\* the earlier ones
C6_LastColorWins ==
    (pc = "done" /\ parser \in {"fill", "stroke"}) =>
        LET toks == tokenizeFigScriptString(raw)
            valid == {i \in DOMAIN toks : ColorClassOf(parser, toks[i]) # ""}
            second == ColorClassOf(parser, toks[Last(valid)])
        IN  (/\ Cardinality(valid) >= 2
             /\ parser = "fill" => \A i \in DOMAIN toks : ~SetsImageType(toks[i]))
            => /\ Contains(result.classes, second)
               /\ \A i \in valid :
                      ColorClassOf(parser, toks[i]) # second
                          => ~Contains(result.classes, ColorClassOf(parser, toks[i]))

-----------------------------------------------------------------------------
(* Layout claims *)

\* the concern a token sets and the class it yields when it is the only token
\* of a Layout string of the mode of the current run; concern "none" otherwise
LayoutConcern(t) ==
    LET alone == LayoutToken(LayoutStart(raw), t)
        dims == alone.dimensionClasses
        flows == alone.flowClasses
    IN  IF Len(dims) = 1 /\ StartsWith(dims[1], "w-")
        THEN [concern |-> "width", class |-> dims[1]]
        ELSE IF Len(dims) = 1 /\ StartsWith(dims[1], "h-")
        THEN [concern |-> "height", class |-> dims[1]]
        ELSE IF Len(flows) = 1 /\ flows[1] \in {"flex-col", "flex-row"}
        THEN [concern |-> "flow", class |-> flows[1]]
        ELSE [concern |-> "none", class |-> ""]

\* C7: when two tokens of a Layout string set the same concern (width, height
\* or flow direction) to different classes, the returned classes hold the
\* class of the later token and not the class of the earlier one
C7_LayoutLastWriteWins ==
    (pc = "done" /\ parser = "layout" /\ TrimStr(raw) # "") =>
        LET toks == LayoutTokens(raw)
        IN  \A i, j \in DOMAIN toks :
                (/\ i < j
                 /\ LayoutConcern(toks[i]).concern # "none"
                 /\ LayoutConcern(toks[i]).concern = LayoutConcern(toks[j]).concern
                 /\ LayoutConcern(toks[i]).class # LayoutConcern(toks[j]).class
                 /\ \A k \in (j + 1)..Len(toks) :
                        LayoutConcern(toks[k]).concern # LayoutConcern(toks[j]).concern)
                => /\ Contains(result.classes, LayoutConcern(toks[j]).class)
                   /\ ~Contains(result.classes, LayoutConcern(toks[i]).class)

InferredStandardWarning ==
    "Layout mode inferred as \"STANDARD\". For Auto Layout, use \"Layout=Auto{...}\"."

DimensionsRequiredError == "Layout \"dimensions\" (w, h) are required."

\* C8: the Layout string dimensions={w-100px,h-50px} resolves to STANDARD
\* mode, returns the classes w-[100px] and h-[50px], and returns the warning
\* that recommends an explicit mode
C8_StandardDimensions ==
    (pc = "done" /\ parser = "layout" /\ raw = "dimensions={w-100px,h-50px}") =>
        /\ st.mode = "STANDARD"
        /\ Contains(result.classes, "w-[100px]")
        /\ Contains(result.classes, "h-[50px]")
        /\ Contains(result.warnings, InferredStandardWarning)

\* a horizontal flow token of an Auto Layout string
IsHorizontalFlow(t) ==
    \/ IsShorthand(t) /\ t.value \in {"horizontal", ":lr:"}
    \/ TokenKey(t) = "flow" /\ \E v \in {"horizontal", ":lr:"} : Contains(SplitTrim(t.value), v)

\* a dimension token: the dimensions key or a bare width, height, min or max
IsDimensionToken(t) ==
    \/ TokenKey(t) = "dimensions"
    \/ IsShorthand(t) /\ \E q \in {"w-", "h-", "min-w-", "max-w-", "min-h-", "max-h-"} :
                             StartsWith(t.value, q)

\* the class a gap token of an Auto Layout string yields, "" for any other token
GapClassOf(t) ==
    LET alone == LayoutToken([LayoutStart("Auto{}") EXCEPT !.mode = "AUTO"], t)
    IN  IF IsDimensionToken(t) THEN "" ELSE alone.gapClass

IsPixelGap(t) == StartsWith(GapClassOf(t), "gap-[")

\* a class of the dimension group: width, height, min or max
IsDimensionClass(c) ==
    \E q \in {"w-", "h-", "min-w-", "max-w-", "min-h-", "max-h-"} : StartsWith(c, q)

NoDimensionClass(classes) == \A i \in DOMAIN classes : ~IsDimensionClass(classes[i])

\* C9 as stated: every Auto{...}-wrapped string with a horizontal flow token,
\* a pixel gap token and no dimension token returns flex, flex-row and the
\* gap-[Npx] class of a pixel gap token, with the dimensions error; and every
\* Layout string that yields no dimension class yields an error
C9_AutoFlowGapAsStated ==
    (pc = "done" /\ parser = "layout") =>
        LET toks == LayoutTokens(raw)
        IN  /\ (/\ IsAutoWrapped(raw) /\ TrimStr(raw) # ""
                /\ \E i \in DOMAIN toks : IsHorizontalFlow(toks[i])
                /\ \E i \in DOMAIN toks : IsPixelGap(toks[i])
                /\ \A i \in DOMAIN toks : ~IsDimensionToken(toks[i]))
               => /\ Contains(result.classes, "flex")
                  /\ Contains(result.classes, "flex-row")
                  /\ \E i \in DOMAIN toks :
                         IsPixelGap(toks[i]) /\ Contains(result.classes, GapClassOf(toks[i]))
                  /\ Contains(result.errors, DimensionsRequiredError)
            /\ NoDimensionClass(result.classes) => result.errors # << >>

\* C9: every Auto{...}-wrapped string with a horizontal flow token and no
\* dimension token, whose last gap token (pixel or auto) is a pixel gap,
\* returns flex first, flex-row and the gap-[Npx] class of that token, with
\* the dimensions error; and every Layout string that yields no dimension
\* class yields an error
C9_AutoFlowGap ==
    (pc = "done" /\ parser = "layout") =>
        LET toks == LayoutTokens(raw)
            gaps == {i \in DOMAIN toks : GapClassOf(toks[i]) # ""}
        IN  /\ (/\ IsAutoWrapped(raw) /\ TrimStr(raw) # ""
                /\ \E i \in DOMAIN toks : IsHorizontalFlow(toks[i])
                /\ gaps # {} /\ IsPixelGap(toks[Last(gaps)])
                /\ \A i \in DOMAIN toks : ~IsDimensionToken(toks[i]))
               => /\ result.classes[1] = "flex"
                  /\ Contains(result.classes, "flex-row")
                  /\ Contains(result.classes, GapClassOf(toks[Last(gaps)]))
                  /\ \A i \in gaps : GapClassOf(toks[i]) # GapClassOf(toks[Last(gaps)])
                                        => ~Contains(result.classes, GapClassOf(toks[i]))
                  /\ Contains(result.errors, DimensionsRequiredError)
            /\ NoDimensionClass(result.classes) => result.errors # << >>

\* C9 witness: Auto{flow=horizontal,gap=10px} has returned flex, flex-row and
\* gap-[10px] with the dimensions error
C9_Witness ==
    /\ pc = "done" /\ parser = "layout"
    /\ raw = "Auto{flow=horizontal,gap=10px}"
    /\ result.classes = << "flex", "flex-row", "gap-[10px]" >>
    /\ result.errors = << DimensionsRequiredError >>

-----------------------------------------------------------------------------
(* Position claims *)

\* a token that sets the ignore-auto-layout flag to b ("true" or "false")
IsFlagToken(t, b) ==
    LET vals == IF b = "true" THEN {"TRUE(:check:)", "TRUE", ":check:"}
                ELSE {"FALSE(:cross:)", "FALSE", ":cross:"}
    IN  /\ t.value \in vals
        /\ \/ TokenKey(t) = "ignore-auto-layout"
           \/ IsShorthand(t) /\ t.value \in {"TRUE", ":check:", "FALSE", ":cross:"}

\* the last valid flag token of toks sets the flag to true
FlagResolvesTrue(toks) ==
    \E i \in DOMAIN toks :
        /\ IsFlagToken(toks[i], "true")
        /\ \A j \in (i + 1)..Len(toks) : ~IsFlagToken(toks[j], "false")

\* positions of the valid z-order tokens: bare z-<digits>
ValidZ(toks) ==
    {i \in DOMAIN toks :
        /\ IsShorthand(toks[i])
        /\ StartsWith(toks[i].value, "z-")
        /\ AllDigits(Substring(toks[i].value, 2))}

\* a rotation token r-90, bare or under the rotation key
HasR90(toks) ==
    \E i \in DOMAIN toks :
        \/ IsShorthand(toks[i]) /\ toks[i].value = "r-90"
        \/ TokenKey(toks[i]) = "rotation" /\ Contains(SplitTrim(toks[i].value), "r-90")

ZClasses(classes) == {i \in DOMAIN classes : StartsWith(classes[i], "z-")}

\* C10: when the ignore-auto-layout flag resolves to true the result has
\* isFixed = true and the class fixed; the class list holds exactly one z
\* class, which is the default z-50 when no valid z-order token is present and
\* otherwise the class of the (last) valid z-order token, canonical or
\* bracketed; a rotation token r-90 yields rotate-90.
C10_FixedAndDefaultZ ==
    (pc = "done" /\ parser = "position") =>
        LET toks == tokenizeFigScriptString(raw)
            zs == ValidZ(toks)
            last == toks[CHOOSE i \in zs : \A j \in zs : j <= i].value
        IN  /\ FlagResolvesTrue(toks) =>
                /\ result.isFixed
                /\ Contains(result.classes, "fixed")
                /\ Cardinality(ZClasses(result.classes)) = 1
                /\ zs = {} => Contains(result.classes, "z-50")
                /\ zs # {} =>
                      \/ Contains(result.classes, last)
                      \/ Contains(result.classes, "z-[" \o Substring(last, 2) \o "]")
            /\ HasR90(toks) => Contains(result.classes, "rotate-90")

\* C10 witness: a fixed result with an explicit z-order class other than the
\* default, and a rotate-90 class
C10_Witness ==
    /\ pc = "done" /\ parser = "position"
    /\ result.isFixed
    /\ Contains(result.classes, "z-10")
    /\ ~Contains(result.classes, "z-50")
    /\ Contains(result.classes, "rotate-90")

-----------------------------------------------------------------------------
(* Fill claims *)

\* a plain number between 0 and 100, without a unit
IsPercentNumber(s) == IsDecimal(s) /\ InPercentRange(parseFloat(s))

\* a Fill token that no earlier branch takes: not a type and not a color token
IsPastFillColor(t) ==
    /\ TokenKey(t) \notin {"type", "color"}
    /\ IsShorthand(t) =>
           /\ t.value \notin {"solid", "image"}
           /\ \A q \in {"#", "tailwind-", "layer-", "bg-"} : ~StartsWith(t.value, q)

\* a valid opacity token of a Fill string: opacity=N, opacity-N, N% or N, with
\* N a plain number between 0 and 100
IsValidFillOpacity(t) ==
    LET v == t.value
    IN  /\ IsPastFillColor(t)
        /\ \/ TokenKey(t) = "opacity" /\ IsPercentNumber(v)
           \/ /\ IsShorthand(t)
              /\ IF StartsWith(v, "opacity-") THEN IsPercentNumber(Substring(v, 8))
                 ELSE IF EndsWith(v, "%") THEN IsPercentNumber(SubSeq(v, 1, Len(v) - 1))
                 ELSE AllDigits(v) /\ IsPercentNumber(v)

\* an opacity token of any form, valid or not
IsFillOpacityForm(t) ==
    \/ TokenKey(t) = "opacity"
    \/ /\ IsShorthand(t)
       /\ \/ EndsWith(t.value, "%") \/ AllDigits(t.value) \/ StartsWith(t.value, "opacity-")

\* a URL token of a Fill string: url=..., url(...), an absolute or a
\* root-relative path
IsFillUrlToken(t) ==
    /\ IsPastFillColor(t)
    /\ ~IsFillOpacityForm(t)
    /\ \/ TokenKey(t) = "url"
       \/ /\ IsShorthand(t)
          /\ \E q \in {"url(", "http://", "https://", "/"} : StartsWith(t.value, q)

MissingUrlError == "An image URL is required when fill type is \"image\"."

OpacityRequiredError == "Fill \"opacity\" is required. Defaulting to 100% (bg-opacity-100)."

-----------------------------------------------------------------------------
(* Appearance claims *)

\* C12: parseAppearance on an empty or whitespace-only string (an absent
\* string takes the same branch) returns no class, no error and exactly one
\* warning, which states that the default appearance is applied
C12_AppearanceBlank ==
    (pc = "done" /\ parser = "appearance" /\ TrimStr(raw) = "") =>
        /\ result.classes = << >>
        /\ result.errors = << >>
        /\ Len(result.warnings) = 1
        /\ Includes(result.warnings[1], "Applying default appearance")

\* C12 witness: a whitespace-only Appearance string has returned
C12_Witness ==
    /\ pc = "done" /\ parser = "appearance"
    /\ raw = SP \o SP
    /\ Len(result.warnings) = 1
    /\ result.errors = << >>

-----------------------------------------------------------------------------
(* Stroke claims *)

\* a border weight class: border-[Npx] or border-<side>-[Npx]
IsStrokeWeightClass(c) == IsBorderPx(c) \/ IsSideBorderPx(c)

\* a border color class: a border- class that is neither a weight nor an
\* opacity class
IsStrokeColorClass(c) ==
    /\ StartsWith(c, "border-")
    /\ ~IsStrokeWeightClass(c)
    /\ ~StartsWith(c, "border-opacity-")

StrokeColorRequired == "Stroke \"color\" is required."

StrokeWeightRequired == "Stroke \"weight\" is required."

\* C13: parseStroke on a blank string returns no class, no error and no
\* warning; on a non-blank string it returns the color-required error whenever
\* the returned classes hold no border color class, and the weight-required
\* error whenever they hold no border weight class
C13_StrokeRequired ==
    (pc = "done" /\ parser = "stroke") =>
        IF TrimStr(raw) = ""
        THEN result = createParseResult
        ELSE /\ (\A i \in DOMAIN result.classes : ~IsStrokeColorClass(result.classes[i]))
                    => Contains(result.errors, StrokeColorRequired)
             /\ (\A i \in DOMAIN result.classes : ~IsStrokeWeightClass(result.classes[i]))
                    => Contains(result.errors, StrokeWeightRequired)

-----------------------------------------------------------------------------
(* Claims about all five parsers *)

\* the classes a parser has accumulated in its local variables
Accumulated(s) ==
    IF parser = "layout"
    THEN << s.classes, s.dimensionClasses, s.paddingClasses, s.spacingClasses,
            s.flowClasses, s.alignmentClasses, << s.gapClass >> >>
    ELSE IF parser = "position"
    THEN << s.classes, s.transformClasses, s.positionOffsetClasses,
            s.explicitPositionClasses, << s.zIndexClass >> >>
    ELSE << s.classes >>

\* C14: an iteration of the token loop that reports an error leaves the
\* classes accumulated from the earlier tokens unchanged
C14_ErrorKeepsClasses ==
    [][(pc = "loop" /\ pc' = "loop" /\ Len(st'.errors) > Len(st.errors))
           => Accumulated(st') = Accumulated(st)]_vars

\* the tokens the loop of the current run goes over
RunTokens == IF parser = "layout" THEN LayoutTokens(raw) ELSE tokenizeFigScriptString(raw)

\* the state after the loop body of the current parser has processed token t
\* as the first token of the string
FirstStep(t) ==
    IF parser = "position" THEN PositionToken(PositionStart, t)
    ELSE IF parser = "layout" THEN LayoutToken(LayoutStart(raw), t)
    ELSE IF parser = "appearance" THEN AppearanceToken(AppearanceStart, t)
    ELSE IF parser = "fill" THEN FillToken(FillStart, t)
    ELSE StrokeToken(StrokeStart, t)

\* a token the current parser rejects with an error
IsRejected(t) == FirstStep(t).errors # << >>

\* the classes the current parser returns for the tokens toks alone
ClassesOf(toks) ==
    LET body == JoinForms(toks)
    IN  IF parser = "position" THEN parsePosition(body).classes
        ELSE IF parser = "layout" THEN parseLayout("Auto{" \o body \o "}").classes
        ELSE IF parser = "appearance" THEN parseAppearance(body).classes
        ELSE IF parser = "fill" THEN parseFill(body).classes
        ELSE parseStroke(body).classes

\* C15: every step of a run brings the parser nearer to its return: the
\* entry goes to the loop or returns, an iteration of the loop consumes one
\* token whatever errors were reported, and the loop ends only when no token
\* is left; a returned result has its three lists; and when the first tokens
\* of a string are rejected with errors, the returned classes are the classes
\* of the remaining tokens, so that a valid token after a rejected one
\* contributes its classes
C15_NoAbort ==
    /\ [][/\ pc = "start" => pc' \in {"loop", "done"}
          /\ pc = "loop" => \/ pc' = "loop" /\ rest # << >> /\ rest' = Tail(rest)
                            \/ pc' = "done" /\ rest = << >>]_vars
    /\ [](pc = "done" =>
           /\ {"classes", "errors", "warnings"} \subseteq DOMAIN result
           /\ TrimStr(raw) # "" =>
                  /\ rest = << >>
                  /\ \A j \in 1..(Len(RunTokens) - 1) :
                         (\A i \in 1..j : IsRejected(RunTokens[i]))
                             => result.classes
                                    = ClassesOf(SubSeq(RunTokens, j + 1, Len(RunTokens))))

\* C15 witness: the Appearance string hide=maybe,HIDDEN has returned the
\* error of the rejected token and the class of the valid token after it
C15_Witness ==
    /\ pc = "done" /\ parser = "appearance"
    /\ raw = "hide=maybe,HIDDEN"
    /\ \E i \in DOMAIN result.errors : StartsWith(result.errors[i], "Invalid value for hide")
    /\ Contains(result.classes, "hidden")

-----------------------------------------------------------------------------
(* Layout mode claims *)

\* a token of the Auto Layout group: flow, alignment, gap, padding or settings,
\* keyed or bare
IsAutoOnlyToken(t) ==
    \/ TokenKey(t) \in {"flow", "alignment", "gap", "padding", "settings"}
    \/ /\ IsShorthand(t)
       /\ \/ t.value \in {"vertical", ":ud:", "horizontal", ":lr:", "wrap", ":wrap:"}
          \/ t.value \in AlignmentMarkers
          \/ StartsWith(t.value, "gap-") \/ IsPx(t.value) \/ t.value = "auto"
          \/ \E q \in {"p-", "px-", "py-", "pt-", "pb-", "pl-", "pr-", "all-"} :
                 StartsWith(t.value, q)
          \/ Includes(t.value, "align-text-baseline")

\* a spacing token of the Standard Layout group
IsSpacingToken(t) ==
    \/ TokenKey(t) = "spacing"
    \/ IsShorthand(t) /\ StartsWith(t.value, "v-")

\* the classes token t yields when it is the only token of a string of mode m
ClassesInMode(t, m) ==
    LET alone == LayoutToken([LayoutStart(raw) EXCEPT !.mode = m], t)
    IN  alone.flowClasses \o alone.alignmentClasses \o alone.paddingClasses
            \o alone.spacingClasses
            \o (IF alone.gapClass = "" THEN << >> ELSE << alone.gapClass >>)
            \o (IF alone.settingsAlignBaseline THEN << "items-baseline" >> ELSE << >>)

AutoInStandardError ==
    "Auto Layout properties (flow, alignment, gap, padding, settings) were found in Standard Layout mode. These will be ignored. Use Layout=Auto{...} for Auto Layout."

SpacingInAutoError ==
    "Standard Layout 'spacing' properties (v-#px, h-#px for space-x/y) are not applicable in Auto Layout mode. Use 'gap' and 'padding' instead."

\* C16: a Layout string of STANDARD mode that holds a token of the Auto Layout
\* group returns the cross-mode error and none of the classes of that token;
\* a Layout string of AUTO mode that holds a spacing token returns the
\* cross-mode error and none of the classes of that token
C16_CrossMode ==
    (pc = "done" /\ parser = "layout" /\ TrimStr(raw) # "") =>
        LET toks == LayoutTokens(raw)
            Excluded(t, m) ==
                \A k \in DOMAIN ClassesInMode(t, m) :
                    ~Contains(result.classes, ClassesInMode(t, m)[k])
        IN  /\ st.mode = "STANDARD" =>
                   \A i \in DOMAIN toks :
                       IsAutoOnlyToken(toks[i]) =>
                           /\ Contains(result.errors, AutoInStandardError)
                           /\ Excluded(toks[i], "AUTO")
            /\ st.mode = "AUTO" =>
                   \A i \in DOMAIN toks :
                       IsSpacingToken(toks[i]) =>
                           /\ Contains(result.errors, SpacingInAutoError)
                           /\ Excluded(toks[i], "STANDARD")

-----------------------------------------------------------------------------
(* Position flag and scope claims *)

\* C17: parsePosition returns isFixed = true exactly when the returned classes
\* hold the class fixed, and both are decided by the last valid value of the
\* ignore-auto-layout flag
C17_FixedIffClass ==
    (pc = "done" /\ parser = "position") =>
        LET toks == tokenizeFigScriptString(raw)
        IN  /\ result.isFixed <=> Contains(result.classes, "fixed")
            /\ result.isFixed <=> FlagResolvesTrue(toks)

\* a class of the flow, alignment, gap or baseline group
IsFlexGroupClass(c) ==
    \/ c \in {"flex-col", "flex-row", "flex-wrap", "justify-between", "items-baseline"}
    \/ \E q \in {"justify-", "items-", "gap-["} : StartsWith(c, q)

\* a padding class
IsPaddingClass(c) ==
    \E q \in {"p-", "px-", "py-", "pt-", "pb-", "pl-", "pr-"} : StartsWith(c, q)

\* C18 as stated: when the mode is AUTO and the returned classes hold a flow,
\* alignment, gap, padding or baseline class, the first returned class is flex
C18_FlexFirstAsStated ==
    (pc = "done" /\ parser = "layout" /\ TrimStr(raw) # "" /\ st.mode = "AUTO") =>
        ((\E i \in DOMAIN result.classes :
              IsFlexGroupClass(result.classes[i]) \/ IsPaddingClass(result.classes[i]))
            => result.classes[1] = "flex")

\* C18: when the mode is AUTO and the returned classes hold a flow, alignment,
\* gap or baseline class, the first returned class is flex; padding classes
\* alone do not bring flex
C18_FlexFirst ==
    (pc = "done" /\ parser = "layout" /\ TrimStr(raw) # "" /\ st.mode = "AUTO") =>
        /\ (\E i \in DOMAIN result.classes : IsFlexGroupClass(result.classes[i]))
               => result.classes[1] = "flex"
        /\ (\A i \in DOMAIN result.classes : ~IsFlexGroupClass(result.classes[i]))
               => ~Contains(result.classes, "flex")

\* C18 witness: Auto{w-100px,vertical} has returned flex before the width class
C18_Witness ==
    /\ pc = "done" /\ parser = "layout"
    /\ raw = "Auto{w-100px,vertical}"
    /\ result.classes = << "flex", "w-[100px]", "flex-col" >>

-----------------------------------------------------------------------------
(* Padding claims *)

\* the scope of a padding class: all, x, y, or one side
PaddingScope(c) ==
    IF StartsWith(c, "px-") THEN "x" ELSE IF StartsWith(c, "py-") THEN "y"
    ELSE IF StartsWith(c, "pl-") THEN "l" ELSE IF StartsWith(c, "pr-") THEN "r"
    ELSE IF StartsWith(c, "pt-") THEN "t" ELSE IF StartsWith(c, "pb-") THEN "b"
    ELSE IF StartsWith(c, "p-") THEN "all" ELSE "none"

\* the padding class a token of an Auto Layout string yields, "" for any other
\* token
PaddingClassOf(t) ==
    LET alone == LayoutToken(LayoutStart("Auto{}"), t)
    IN  IF Len(alone.paddingClasses) = 1 THEN alone.paddingClasses[1] ELSE ""

\* the axis a side belongs to
AxisOf(side) == IF side \in {"l", "r"} THEN "x" ELSE "y"

\* scope a overrides an earlier class of scope b: the same scope, an axis
\* over all sides, or a side over its axis
PaddingOverrides(a, b) ==
    \/ a = b
    \/ a \in {"x", "y"} /\ b = "all"
    \/ a \in {"l", "r", "t", "b"} /\ b = AxisOf(a)

\* C19: in an Auto Layout string every padding token removes the earlier
\* padding classes of its own scope, an axis token removes an earlier
\* all-sides class and a side token removes an earlier class of its axis, so
\* the returned classes hold at most one padding class per scope
C19_PaddingPrecedence ==
    (pc = "done" /\ parser = "layout" /\ TrimStr(raw) # "" /\ st.mode = "AUTO") =>
        LET toks == LayoutTokens(raw)
            pads == {i \in DOMAIN result.classes : IsPaddingClass(result.classes[i])}
        IN  /\ \A i, j \in DOMAIN toks :
                   (/\ i < j
                    /\ PaddingClassOf(toks[i]) # "" /\ PaddingClassOf(toks[j]) # ""
                    /\ PaddingClassOf(toks[i]) # PaddingClassOf(toks[j])
                    /\ PaddingOverrides(PaddingScope(PaddingClassOf(toks[j])),
                                        PaddingScope(PaddingClassOf(toks[i])))
                    /\ \A k \in (j + 1)..Len(toks) :
                           PaddingClassOf(toks[k]) # PaddingClassOf(toks[i]))
                   => ~Contains(result.classes, PaddingClassOf(toks[i]))
            /\ \A i, j \in pads :
                   PaddingScope(result.classes[i]) = PaddingScope(result.classes[j]) => i = j

\* the kind of a Position token that is only allowed on a fixed element:
\* alignment, position (x/y) or constraints; "none" for any other token
ScopedKind(t) ==
    IF TokenKey(t) = "alignment" \/ (IsShorthand(t) /\ StartsWith(t.value, "align-"))
    THEN "alignment"
    ELSE IF TokenKey(t) = "position"
        \/ (IsShorthand(t) /\ (StartsWith(t.value, "x-") \/ StartsWith(t.value, "y-")))
    THEN "position"
    ELSE IF TokenKey(t) = "constraints"
        \/ (IsShorthand(t) /\ (StartsWith(t.value, "h-") \/ StartsWith(t.value, "v-")))
    THEN "constraints"
    ELSE "none"

\* the error that reports a kind of token used on an element that is not fixed
ScopeError(kind) ==
    IF kind = "alignment"
    THEN "Alignment properties (align-left, etc.) are only available when \"ignore-auto-layout\" is TRUE."
    ELSE IF kind = "position"
    THEN "Position properties (x-#px, y-#px) are only available when \"ignore-auto-layout\" is TRUE."
    ELSE "Constraint properties (h-..., v-...) are only available when \"ignore-auto-layout\" is TRUE."

\* the starts of the errors that reject a malformed token of a kind
InvalidPrefixes(kind) ==
    IF kind = "alignment" THEN {"Invalid alignment token"}
    ELSE IF kind = "position" THEN {"Invalid x", "Invalid y"}
    ELSE {"Invalid constraint token"}

\* token t is well-formed: alone it stores a value and reports no error
IsWellFormedScoped(t) == PositionToken(PositionStart, t).errors = << >>

\* a class that places a fixed element: an edge offset, a translate or a
\* full-size class
IsPlacementClass(c) ==
    \/ \E q \in {"left-", "right-", "top-", "bottom-"} : StartsWith(c, q)
    \/ Includes(c, "translate")
    \/ c \in {"w-full", "h-full"}

-----------------------------------------------------------------------------
(* Position centring claims *)

\* C21: for every Position string, the final class list contains left-1/2
\* exactly when it contains -translate-x-1/2, and top-1/2 exactly when it
\* contains -translate-y-1/2.
C21_CenterPairing ==
    (parser = "position" /\ pc = "done") =>
        /\ Contains(result.classes, "left-1/2")
               <=> Contains(result.classes, "-translate-x-1/2")
        /\ Contains(result.classes, "top-1/2")
               <=> Contains(result.classes, "-translate-y-1/2")

\* a fixed element centred on both axes and rotated: both pairs are emitted,
\* the offsets before the transforms
C21_Witness ==
    /\ parser = "position" /\ pc = "done"
    /\ raw = "TRUE,constraints=h-center,v-center"
    /\ result.classes = << "z-50", "fixed", "left-1/2", "top-1/2",
                           "-translate-x-1/2", "-translate-y-1/2" >>

-----------------------------------------------------------------------------
(* Corner-radius claims *)

\* the corner-radius value of a token: the token itself, or the value of a
\* corner-radius key
IsRadiusToken(t) == IsShorthand(t) \/ TokenKey(t) = "corner-radius"

\* a whole number of pixels: \d+px
IsWholePx(s) == EndsWith(s, "px") /\ AllDigits(SubSeq(s, 1, Len(s) - 2))

\* a valid token that sets the radius of all corners: all-#px or :corn:#px
IsAllCornersToken(t) ==
    /\ IsRadiusToken(t)
    /\ \E p \in {"all-", ":corn:"} :
           /\ StartsWith(t.value, p)
           /\ IsWholePx(Substring(t.value, Len(p)))

\* a valid token that sets the radius of one corner
IsPerCornerToken(t) ==
    /\ IsRadiusToken(t)
    /\ \E p \in {"top-left-", "top-right-", "bottom-left-", "bottom-right-",
                 ":nw:", ":ne:", ":sw:", ":se:"} :
           /\ StartsWith(t.value, p)
           /\ IsWholePx(Substring(t.value, Len(p)))

IsAllCornersClass(c) == StartsWith(c, "rounded-[")

IsPerCornerClass(c) ==
    \E corner \in {"tl", "tr", "bl", "br"} : StartsWith(c, "rounded-" \o corner \o "-[")

\* C22: in a string of valid corner-radius tokens, once an all-corners token
\* is processed no per-corner class remains in the class list, and once a
\* per-corner token is processed no all-corners class remains in the class
\* list.
C22_RadiusScopes ==
    [][(parser = "appearance" /\ pc = "loop" /\ rest # << >>) =>
          /\ IsAllCornersToken(Head(rest)) =>
                 \A i \in DOMAIN st'.classes : ~IsPerCornerClass(st'.classes[i])
          /\ IsPerCornerToken(Head(rest)) =>
                 \A i \in DOMAIN st'.classes : ~IsAllCornersClass(st'.classes[i])]_vars

-----------------------------------------------------------------------------
(* Stroke weight claims *)

\* the scope of a weight token: "all", a side, or "none" for another token
WeightScope(t) ==
    IF ~(IsShorthand(t) \/ TokenKey(t) = "weight") THEN "none"
    ELSE IF StartsWith(t.value, "all-") THEN "all"
    ELSE IF StartsWith(t.value, "t-") \/ StartsWith(t.value, ":up:") THEN "t"
    ELSE IF StartsWith(t.value, "b-") \/ StartsWith(t.value, ":down:") THEN "b"
    ELSE IF StartsWith(t.value, "l-") \/ StartsWith(t.value, ":left:") THEN "l"
    ELSE IF StartsWith(t.value, "r-") \/ StartsWith(t.value, ":right:") THEN "r"
    ELSE "none"

\* the pixel value of a weight token: what follows its scope prefix
WeightPixels(t) ==
    LET v == t.value
        p == CHOOSE q \in {"all-", "t-", "b-", "l-", "r-",
                           ":up:", ":down:", ":left:", ":right:"} : StartsWith(v, q)
    IN  Substring(v, Len(p))

\* a valid integer-pixel weight token
IsWeightToken(t) == WeightScope(t) # "none" /\ IsWholePx(WeightPixels(t))

\* the class derived from a weight token
WeightClassOf(t) ==
    IF WeightScope(t) = "all" THEN "border-[" \o WeightPixels(t) \o "]"
    ELSE "border-" \o WeightScope(t) \o "-[" \o WeightPixels(t) \o "]"

\* the position of the most recent token of a scope, 0 when there is none
LastOfScope(toks, scope) ==
    LET S == {i \in DOMAIN toks : WeightScope(toks[i]) = scope}
    IN  IF S = {} THEN 0 ELSE Last(S)

WeightSides == {"t", "b", "l", "r"}

\* the weight classes a string of weight tokens leaves: the uniform class of
\* the last uniform token when no side token follows it, and for each side
\* the class of its last token when no uniform token follows it
ExpectedWeights(toks) ==
    LET u == LastOfScope(toks, "all")
    IN  (IF u > 0 /\ \A d \in WeightSides : LastOfScope(toks, d) < u
         THEN {WeightClassOf(toks[u])} ELSE {})
        \cup {WeightClassOf(toks[LastOfScope(toks, d)]) :
                  d \in {e \in WeightSides : LastOfScope(toks, e) > u}}

\* C23: after a string of valid integer-pixel weight tokens (and color
\* tokens), the weight classes of the final class list are, each once, the
\* class of the most recent token of each scope still in force: never a
\* uniform class beside a per-side class, at most one uniform class and at
\* most one class per side.
C23_WeightScopes ==
    (parser = "stroke" /\ pc = "done" /\ result # << >> /\ TrimStr(raw) # "") =>
        LET toks == tokenizeFigScriptString(raw)
            W == SelectSeq(result.classes, IsStrokeWeightClass)
            sides == {d \in WeightSides :
                         \E i \in DOMAIN W : StartsWith(W[i], "border-" \o d \o "-[")}
        IN  (\A i \in DOMAIN toks : IsWeightToken(toks[i]) \/ toks[i] = Bare("#fff")) =>
                /\ {W[i] : i \in DOMAIN W} = ExpectedWeights(toks)
                /\ Len(W) = Cardinality(ExpectedWeights(toks))
                /\ ~((\E i \in DOMAIN W : IsBorderPx(W[i])) /\ sides # {})
                /\ Cardinality({i \in DOMAIN W : IsBorderPx(W[i])}) <= 1
                /\ \A d \in WeightSides :
                       Cardinality({i \in DOMAIN W :
                                        StartsWith(W[i], "border-" \o d \o "-[")}) <= 1

\* a side token, a uniform token and a marker token of the same side: the
\* uniform token removed the first, the last removed the uniform class
C23_Witness ==
    /\ parser = "stroke" /\ pc = "done"
    /\ raw = "t-1px,all-2px,:up:3px"
    /\ result.classes = << "border-t-[3px]" >>

-----------------------------------------------------------------------------
(* Fill type claims *)

\* a type token with value v: type=v, or the bare word
IsTypeToken(t, v) == (TokenKey(t) = "type" \/ IsShorthand(t)) /\ t.value = v

\* the type the last type token before position i set: "solid", "image", or
\* "none" when no type token precedes i
ExplicitTypeBefore(toks, i) ==
    LET S == {j \in 1..(i - 1) :
                  IsTypeToken(toks[j], "solid") \/ IsTypeToken(toks[j], "image")}
    IN  IF S = {} THEN "none" ELSE toks[Last(S)].value

\* the image-URL class of a URL token (a URL written without quotes)
UrlClassOf(t) ==
    LET v == t.value
        url == IF StartsWith(v, "url(") /\ EndsWith(v, ")")
               THEN SubSeq(v, 5, Len(v) - 1) ELSE v
    IN  "bg-[url('" \o url \o "')]"

IsUrlClass(c) == StartsWith(c, "bg-[url(")

\* C24: a URL token is dropped only when the last type token before it set
\* the type to solid; a URL token met while the type is unset, image, or
\* solid only by inference from a color token sets the type to image and its
\* image-URL class is in the final class list.
C24_UrlPromotion ==
    (parser = "fill" /\ pc = "done" /\ TrimStr(raw) # "") =>
        LET toks == tokenizeFigScriptString(raw)
            A == {i \in DOMAIN toks :
                      /\ IsFillUrlToken(toks[i])
                      /\ ExplicitTypeBefore(toks, i) # "solid"}
        IN  /\ A # {} => Contains(result.classes, UrlClassOf(toks[Last(A)]))
            /\ (A # {} /\ \A j \in DOMAIN toks :
                              j > Last(A) => ~IsTypeToken(toks[j], "solid"))
                   => st.typeDefined = "image"
            /\ A = {} => \A i \in DOMAIN result.classes : ~IsUrlClass(result.classes[i])

ImageDefaultClasses == {"bg-cover", "bg-center", "bg-no-repeat"}

\* C26: after any token sequence, when the resolved fill type is solid the
\* final class list contains no image-URL class and none of the image default
\* classes bg-cover, bg-center, bg-no-repeat.
C26_SolidHasNoImage ==
    (parser = "fill" /\ pc = "done" /\ TrimStr(raw) # "" /\ st.typeDefined = "solid") =>
        \A i \in DOMAIN result.classes :
            /\ ~IsUrlClass(result.classes[i])
            /\ result.classes[i] \notin ImageDefaultClasses

\* a Fill token the color branch takes: color=..., or a bare token that
\* starts with #, tailwind-, layer- or bg-
IsFillColorToken(t) ==
    /\ TokenKey(t) # "type"
    /\ IsShorthand(t) => t.value \notin {"solid", "image"}
    /\ \/ TokenKey(t) = "color"
       \/ /\ IsShorthand(t)
          /\ \E q \in {"#", "tailwind-", "layer-", "bg-"} : StartsWith(t.value, q)

\* C25: after any token sequence, when the resolved fill type is image the
\* final class list contains no class derived from a color token: a color set
\* before type=image is discarded with a warning, and a color token met while
\* the type is image contributes no class.
C25_ImageHasNoColor ==
    (parser = "fill" /\ pc = "done" /\ TrimStr(raw) # "" /\ st.typeDefined = "image") =>
        LET toks == tokenizeFigScriptString(raw)
        IN  \A i \in DOMAIN toks :
                (IsFillColorToken(toks[i]) /\ ColorClassOf("fill", toks[i]) # "")
                    => ~Contains(result.classes, ColorClassOf("fill", toks[i]))

-----------------------------------------------------------------------------
(* Opacity claims *)

\* the digits of an opacity value: the value without its percent sign
OpacityDigits(t) ==
    IF EndsWith(t.value, "%") THEN SubSeq(t.value, 1, Len(t.value) - 1) ELSE t.value

\* an opacity token in one of the four forms n, n%, opacity=n, opacity=n%
IsOpacityToken(t) ==
    /\ IsShorthand(t) \/ TokenKey(t) = "opacity"
    /\ AllDigits(OpacityDigits(t))

OpacityValue(t) == ParseNat(OpacityDigits(t))

\* the prefix of the opacity class of the current parser
OpacityPrefix == IF parser = "fill" THEN "bg-opacity-" ELSE "opacity-"

\* the error of the current parser for a rejected opacity value
OpacityError(value) ==
    (IF parser = "fill" THEN "Invalid fill opacity value: \""
     ELSE "Invalid opacity value: \"")
        \o value \o "\". Must be 0-100 or a percentage like \"50%\"."

\* C27: in parseAppearance and parseFill an opacity value n of 0..100 is
\* accepted as n, n%, opacity=n and opacity=n%, and the result holds the one
\* opacity class of the last accepted value; a value above 100 is rejected
\* with an error and yields no class.
C27_OpacityForms ==
    (parser \in {"appearance", "fill"} /\ pc = "done" /\ TrimStr(raw) # "") =>
        LET toks == tokenizeFigScriptString(raw)
            V == {i \in DOMAIN toks :
                      IsOpacityToken(toks[i]) /\ OpacityValue(toks[i]) <= 100}
            R == {i \in DOMAIN toks :
                      IsOpacityToken(toks[i]) /\ OpacityValue(toks[i]) > 100}
            O == SelectSeq(result.classes, LAMBDA c : StartsWith(c, OpacityPrefix))
        IN  /\ V # {} =>
                   O = << OpacityPrefix \o FormatNat(OpacityValue(toks[Last(V)])) >>
            /\ \A i \in R :
                   /\ Contains(result.errors, OpacityError(toks[i].value))
                   /\ ~Contains(result.classes,
                                OpacityPrefix \o FormatNat(OpacityValue(toks[i])))

-----------------------------------------------------------------------------
(* Layout inference claims *)

AutoLayoutKeywords == {"flow", "gap", "fill", "hug", ":ud:", ":lr:", ":wrap:", ":center:"}

\* a token that contains an auto-layout-only keyword: a bare token, or a
\* key/value token in its key or in its value
HasAutoKeyword(t) ==
    \E w \in AutoLayoutKeywords :
        \/ Includes(t.value, w)
        \/ isKeyValuePair(t) /\ Includes(t.key, w)

\* the Auto marker: the token Auto, or mode=auto
IsAutoMarker(t) ==
    \/ t = Bare("Auto")
    \/ isKeyValuePair(t) /\ toLowerCase(t.key) = "mode" /\ toLowerCase(t.value) = "auto"

InferredAutoWarning ==
    "Layout mode inferred as \"AUTO\" due to presence of Auto Layout keywords. For clarity, explicitly use \"Layout=Auto{...}\"."

\* the mode-inference warnings of a list of warnings
InferenceWarnings(warnings) ==
    SelectSeq(warnings, LAMBDA m : m \in {InferredAutoWarning, InferredStandardWarning})

\* C28: for a Layout string that is not wrapped as Auto{...} and has no Auto
\* marker, the mode is AUTO when a token contains an auto-layout-only keyword
\* (a bare token, or a key/value token in its key or its value) and STANDARD
\* otherwise, exactly one mode-inference warning is added in either case
\* (the AUTO one or the STANDARD one, as the mode), and the mode does not
\* change while the tokens are processed.
C28_ModeInference ==
    /\ []((parser = "layout" /\ pc \in {"loop", "done"} /\ TrimStr(raw) # ""
              /\ ~IsAutoWrapped(raw)
              /\ \A i \in DOMAIN LayoutTokens(raw) : ~IsAutoMarker(LayoutTokens(raw)[i]))
            => LET keyword == \E i \in DOMAIN LayoutTokens(raw) :
                                  HasAutoKeyword(LayoutTokens(raw)[i])
                   warnings == IF pc = "done" THEN result.warnings ELSE st.warnings
               IN  /\ st.mode = IF keyword THEN "AUTO" ELSE "STANDARD"
                   /\ InferenceWarnings(warnings) =
                          << IF keyword THEN InferredAutoWarning
                             ELSE InferredStandardWarning >>)
    /\ [][(parser = "layout" /\ pc = "loop") => st'.mode = st.mode]_vars

-----------------------------------------------------------------------------
(* Layout size claims *)

\* s after its last "-", s itself when it has none
AfterLastDash(s) ==
    LET D == {i \in 1..Len(s) : Ch(s, i) = "-"}
    IN  IF D = {} THEN s ELSE Substring(s, Last(D))

\* a size-valued token: a dimensions, padding, gap or spacing key, or a bare
\* width, height, min/max or gap token
IsSizeToken(t) ==
    \/ TokenKey(t) \in {"dimensions", "padding", "gap", "spacing"}
    \/ /\ IsShorthand(t)
       /\ \E q \in {"w-", "h-", "min-w-", "max-w-", "min-h-", "max-h-", "gap-"} :
              StartsWith(t.value, q)

\* the size a size-valued token gives
SizeValue(t) == AfterLastDash(t.value)

\* the prefixes of the bracketed classes of size-valued tokens
SizeClassPrefixes ==
    {"w-[", "h-[", "min-w-[", "max-w-[", "min-h-[", "max-h-[",
     "p-[", "px-[", "py-[", "pl-[", "pr-[", "pt-[", "pb-[",
     "gap-[", "space-x-[", "space-y-["}

IsSizeClass(c) == EndsWith(c, "]") /\ \E q \in SizeClassPrefixes : StartsWith(c, q)

\* the value between the brackets of a bracketed class
BracketValue(c) ==
    LET open == Min({i \in 1..Len(c) : Ch(c, i) = "["})
    IN  SubSeq(c, open + 1, Len(c) - 1)

\* C29: every bracketed class parseLayout returns for a size-valued token
\* holds a pixel literal the numeric extractor accepts, and a size-valued
\* token whose value is not a number yields an error that names it and no
\* class.
C29_SizesValidated ==
    (parser = "layout" /\ pc = "done" /\ TrimStr(raw) # "") =>
        LET toks == LayoutTokens(raw)
        IN  /\ \A i \in DOMAIN result.classes :
                   IsSizeClass(result.classes[i]) => IsPx(BracketValue(result.classes[i]))
            /\ \A i \in DOMAIN toks :
                   (/\ IsSizeToken(toks[i])
                    /\ SizeValue(toks[i]) \notin {"fill", "hug", "auto"}
                    /\ ~IsPx(SizeValue(toks[i])))
                   => /\ \E j \in DOMAIN result.errors :
                             Includes(result.errors[j], "\"" \o toks[i].value \o "\"")
                      /\ \A j \in DOMAIN result.classes :
                             ~Includes(result.classes[j], SizeValue(toks[i]))

-----------------------------------------------------------------------------
(* Layout wrap claims *)

\* a flow token with value v: the bare word or marker, or flow=v
IsFlowToken(t, values) == (IsShorthand(t) \/ TokenKey(t) = "flow") /\ t.value \in values

IsHorizontalToken(t) == IsFlowToken(t, {"horizontal", ":lr:"})

IsWrapToken(t) == IsFlowToken(t, {"wrap", ":wrap:"})

WrapOrderError == "\"wrap(:wrap:)\" can only be used with \"horizontal(:lr:)\" flow."

\* C30: in AUTO mode the class flex-wrap is returned exactly when a wrap
\* token follows a horizontal flow token, and every wrap token with no
\* horizontal flow token before it yields the wrap error, also when a
\* horizontal flow token follows it.
C30_WrapAfterHorizontal ==
    (parser = "layout" /\ pc = "done" /\ TrimStr(raw) # "" /\ st.mode = "AUTO") =>
        LET toks == LayoutTokens(raw)
            early == {j \in DOMAIN toks :
                          /\ IsWrapToken(toks[j])
                          /\ \A i \in 1..(j - 1) : ~IsHorizontalToken(toks[i])}
            late == {j \in DOMAIN toks : IsWrapToken(toks[j])} \ early
        IN  /\ Contains(result.classes, "flex-wrap") <=> late # {}
            /\ Len(SelectSeq(result.errors, LAMBDA e : e = WrapOrderError))
                   = Cardinality(early)

\* a wrap before the horizontal flow: the error, and flex-row without
\* flex-wrap
C30_Witness ==
    /\ parser = "layout" /\ pc = "done"
    /\ raw = "Auto{wrap,horizontal,w-100px}"
    /\ Contains(result.errors, WrapOrderError)
    /\ result.classes = << "flex", "w-[100px]", "flex-row" >>

=============================================================================
